---- MODULE Spec2Model ----
(***************************************************************************)
(* Performance assessment editor: the client's save/autosave policy        *)
(* (script.js and the combined non-module build), the AuthManager session, *)
(* the API client and the assessment routes of the backend.                *)
(*                                                                         *)
(* Text is modelled as a sequence of one-character strings, so that        *)
(* parseInt, parseFloat, trim and HTML escaping are computed and not       *)
(* assumed.  Numbers that may be fractional are held in tenths.            *)
(* Timestamps (assessmentDate, date, updatedAt) are left out of the        *)
(* records: no operation modelled here reads them.                         *)
(***************************************************************************)
EXTENDS Integers, Sequences, FiniteSets, Bags, TLC

(* ------------------------------ bounds -------------------------------- *)

\* requests of the page that may be outstanding at the same time
MaxInFlight == 2

\* records the Remote Store can hold
MaxRecords == 2

\* numbers typed into a rating run, in tenths, from MaxTypedBelow under
\* zero up to MaxTyped
MaxTypedBelow == 12

MaxTyped == 62

\* autosave attempts counted within one burst of edits
MaxBurstCount == 2

(* --------------------------- schema registry --------------------------- *)

ratingScaleMin == 0

ratingScaleMax == 5

themes ==
  << [name |-> "Strategic Vision",
      metrics |-> <<"sharedVision", "strategy", "businessAlignment",
                    "customerFocus">>],
     [name |-> "Focus and Engagement",
      metrics |-> <<"crossFunctionalTeams", "clarityInPriorities",
                    "acceptanceCriteria", "enablingFocus", "engagement">>],
     [name |-> "Autonomy and Change",
      metrics |-> <<"feedback", "enablingAutonomy", "changeAndAmbiguity",
                    "desiredCulture", "workAutonomously">>],
     [name |-> "Stakeholders and Team",
      metrics |-> <<"stakeholders", "teamAttrition", "teams",
                    "developingPeople", "subordinatesForSuccess">>] >>

RECURSIVE Flatten(_)
Flatten(ts) ==
  IF ts = <<>> THEN <<>> ELSE Head(ts).metrics \o Flatten(Tail(ts))

\* the metric identifiers in the order the themes list them
metricOrder == Flatten(themes)

MetricIds == { metricOrder[i] : i \in 1..Len(metricOrder) }

\* the number input the user types into: the first of the form, every
\* input has the same listener
EditableMetrics == { Head(metricOrder) }

(* ------------------------------- text ---------------------------------- *)

Digits == <<"0", "1", "2", "3", "4", "5", "6", "7", "8", "9">>

IsDigit(c) == \E i \in 1..10 : Digits[i] = c

DigitVal(c) == (CHOOSE i \in 1..10 : Digits[i] = c) - 1

IsSpace(c) == c = " "

RECURSIVE TrimStart(_)
TrimStart(s) ==
  IF s # <<>> /\ IsSpace(Head(s)) THEN TrimStart(Tail(s)) ELSE s

RECURSIVE TrimEnd(_)
TrimEnd(s) ==
  IF s # <<>> /\ IsSpace(s[Len(s)])
  THEN TrimEnd(SubSeq(s, 1, Len(s) - 1)) ELSE s

\* String.prototype.trim
Trim(s) == TrimEnd(TrimStart(s))

\* the longest prefix of s made of digits
RECURSIVE DigitPrefix(_)
DigitPrefix(s) ==
  IF s # <<>> /\ IsDigit(Head(s))
  THEN <<Head(s)>> \o DigitPrefix(Tail(s)) ELSE <<>>

RECURSIVE DigitsValue(_)
DigitsValue(ds) ==
  IF ds = <<>> THEN 0
  ELSE 10 * DigitsValue(SubSeq(ds, 1, Len(ds) - 1)) + DigitVal(ds[Len(ds)])

Drop(s, n) == SubSeq(s, n + 1, Len(s))

\* a number or NaN; fractional numbers are held in tenths
NaN == [nan |-> TRUE, val |-> 0]

Num(v) == [nan |-> FALSE, val |-> v]

\* parseInt(text): leading blanks, a sign, then digits; NaN without digits
parseInt(text) ==
  LET s    == TrimStart(text)
      neg  == s # <<>> /\ Head(s) = "-"
      body == IF s # <<>> /\ Head(s) \in {"-", "+"} THEN Tail(s) ELSE s
      ds   == DigitPrefix(body)
  IN IF ds = <<>> THEN NaN
     ELSE Num(IF neg THEN 0 - DigitsValue(ds) ELSE DigitsValue(ds))

\* parseFloat(text), in tenths: as parseInt, then an optional fraction of
\* which the first digit is kept (the texts of this model have at most one)
parseFloat(text) ==
  LET s    == TrimStart(text)
      neg  == s # <<>> /\ Head(s) = "-"
      body == IF s # <<>> /\ Head(s) \in {"-", "+"} THEN Tail(s) ELSE s
      ds   == DigitPrefix(body)
      rest == Drop(body, Len(ds))
      fs   == IF rest # <<>> /\ Head(rest) = "."
              THEN DigitPrefix(Tail(rest)) ELSE <<>>
      mag  == 10 * DigitsValue(ds) + (IF fs = <<>> THEN 0 ELSE DigitVal(fs[1]))
  IN IF ds = <<>> /\ fs = <<>> THEN NaN
     ELSE Num(IF neg THEN 0 - mag ELSE mag)

RECURSIVE NatToText(_)
NatToText(n) ==
  IF n < 10 THEN <<Digits[n + 1]>>
  ELSE NatToText(n \div 10) \o <<Digits[(n % 10) + 1]>>

\* String(number) for a number held in tenths
TenthsToText(t) ==
  LET a == IF t < 0 THEN 0 - t ELSE t
  IN (IF t < 0 THEN <<"-">> ELSE <<>>)
     \o NatToText(a \div 10)
     \o (IF a % 10 = 0 THEN <<>> ELSE <<".">> \o NatToText(a % 10))

\* String(number) for an integer
IntToText(n) == TenthsToText(10 * n)

\* the characters HTML serialisation of a text node replaces
RECURSIVE EscapeHtml(_)
EscapeHtml(s) ==
  IF s = <<>> THEN <<>>
  ELSE (CASE Head(s) = "&" -> <<"&", "a", "m", "p", ";">>
          [] Head(s) = "<" -> <<"&", "l", "t", ";">>
          [] Head(s) = ">" -> <<"&", "g", "t", ";">>
          [] OTHER -> <<Head(s)>>) \o EscapeHtml(Tail(s))

(* ------------------------ PerformanceAssessment ------------------------ *)

\* validateInput with parseInt in the place of parseFloat
validateInputTruncating(value) ==
  LET num == parseInt(value)
      hi  == IF ratingScaleMax < num.val THEN 10 * ratingScaleMax
             ELSE 10 * num.val
  IN IF num.nan THEN 0
     ELSE IF 10 * ratingScaleMin > hi THEN 10 * ratingScaleMin ELSE hi

\* validateInput(value), in tenths
validateInput(value) ==
  LET num == parseFloat(value)
      hi  == IF 10 * ratingScaleMax < num.val THEN 10 * ratingScaleMax
             ELSE num.val
  IN IF num.nan THEN 0
     ELSE IF 10 * ratingScaleMin > hi THEN 10 * ratingScaleMin ELSE hi

\* sanitizeEmployeeName(name)
sanitizeEmployeeName(name) == Trim(EscapeHtml(name))

Unknown == <<"U", "n", "k", "n", "o", "w", "n">>

(* ---------------------- inputs of the environment ---------------------- *)

\* texts the user types into a number input
RawInputs == { <<"3">>, <<"7">> }

\* texts the user types into the employee name input
NameInputs == { <<" ">>, <<"A">> }

\* the delay of both debounced handlers, in milliseconds
wait == 5000

TimerOwners == {"ratings", "name"}

\* the state of the credential in client storage: absent, accepted by the
\* server, past its exp claim, or unexpired but refused by the server
TokenStates == {"none", "valid", "expired", "rejected"}

TheUser == "u1"

\* the accounts: the user of the page and another one
Users == {TheUser, "u2"}

ZeroMetrics == [m \in MetricIds |-> 0]

EmptyForm == [m \in MetricIds |-> <<>>]

NoCache == [present |-> FALSE, employeeName |-> <<>>, formData |-> EmptyForm]

\* an entry an earlier visit of the page left in client storage
CachedSample ==
  [present |-> TRUE, employeeName |-> <<"A">>,
   formData |-> [m \in MetricIds |-> <<"3">>]]

NoDoc == [id |-> 0, employeeName |-> <<>>, metrics |-> ZeroMetrics]

(* -------------------------------- state -------------------------------- *)

VARIABLES
  build,                \* "module" (script.js) or "combined" (the other build)
  phase,                \* "constructed" before init(), "ready" after
  readOnly,             \* the readOnly attribute of the inputs of the form
  page,                 \* "app", or "login" once logout has redirected
  inputs,               \* value of each metric's number input
  nameInput,            \* value of the employee name input
  employeeName,         \* this.employeeName
  currentAssessmentId,  \* this.currentAssessmentId, 0 for null
  timers,               \* the browser's pending timeouts, the next due first
  requests,             \* the fetches whose continuation has not run
  store,                \* the assessments collection, _id = index
  localCache,           \* localStorage['performanceAssessment']
  token,                \* localStorage['authToken'], as authManager holds it
  user,                 \* localStorage['user']: the account signed in
  logoutPending,        \* AuthManager.logout() awaits api.logout()
  messages,             \* what the latest handler displayed
  burst,                \* autosaves the current burst of edits caused so far
  failed,               \* a write failed, no edit or manual save followed
  firstId,              \* identity returned by the first create of this record
  downloaded,           \* lines of the CSV file the browser saved last
  last                  \* the latest handler of the page that ran

vars == << build, phase, readOnly, page, inputs, nameInput, employeeName,
           currentAssessmentId, timers, requests, store, localCache,
           token, user, logoutPending, messages, burst, failed, firstId,
           downloaded, last >>

\* description of a handler run; fields that do not apply keep these values
Handler(act) ==
  [act |-> act, trigger |-> "none", op |-> "none", key |-> 0, bound |-> 0,
   quiet |-> FALSE, stale |-> FALSE, wrote |-> FALSE, raised |-> FALSE,
   cacheTouched |-> FALSE, afterFailure |-> FALSE, afterUnauth |-> FALSE,
   issued |-> FALSE, nth |-> 0, status |-> 0, error |-> "none",
   loaded |-> 0, warned |-> 0]

\* an assessment the user saved in an earlier session
StoredSample ==
  [userId |-> TheUser, employeeName |-> <<"A">>,
   metrics |-> [m \in MetricIds |-> 3]]

\* the page after the constructor ran, in one of the given builds, with one
\* of the given entries and credentials in client storage, over one of the
\* given contents of the collection
StartWith(builds, caches, tokens, stores) ==
  /\ build \in builds
  /\ phase = "constructed"
  /\ readOnly = FALSE
  /\ page = "app"
  /\ inputs = EmptyForm
  /\ nameInput = <<>>
  /\ employeeName = <<>>
  /\ currentAssessmentId = 0
  /\ timers = <<>>
  /\ requests = EmptyBag
  /\ store \in stores
  /\ localCache \in caches
  /\ token \in tokens
  /\ user = (IF token = "none" THEN "none" ELSE TheUser)
  /\ logoutPending = FALSE
  /\ messages = <<>>
  /\ burst = 0
  /\ failed = FALSE
  /\ firstId = 0
  /\ downloaded = <<>>
  /\ last = Handler("construct")

\* the same over an empty collection
Start(builds, caches, tokens) == StartWith(builds, caches, tokens, { <<>> })

(* ------------------------------ AuthManager ---------------------------- *)

\* isAuthenticated(): the value it returns
isAuthenticated(t) == t \in {"valid", "rejected"}

\* isAuthenticated(): whether it calls this.logout() on the way
startsLogout(t) == t = "expired"

(* ------------------------- debounce and timers ------------------------- *)

\* a pending timeout: the closure that armed it and its delay.  Every delay
\* of the page is wait, so that timeouts are due in the order they were
\* armed: the sequence is kept in that order and its head runs next
Timeout(o, delay) == [owner |-> o, delay |-> delay]

RECURSIVE clearTimeout(_, _)
clearTimeout(ts, o) ==
  IF ts = <<>> THEN <<>>
  ELSE IF Head(ts).owner = o THEN clearTimeout(Tail(ts), o)
  ELSE <<Head(ts)>> \o clearTimeout(Tail(ts), o)

setTimeout(ts, o, delay) == Append(ts, Timeout(o, delay))

\* executedFunction of the closure debounce(func, wait) returns
debounce(ts, o, delay) == setTimeout(clearTimeout(ts, o), o, delay)

Min(a, b) == IF a < b THEN a ELSE b

(* ------------------------------ the form ------------------------------- *)

\* collectFormData()
collectFormData ==
  [m \in MetricIds |->
     LET n == parseInt(inputs[m]) IN IF n.nan \/ n.val = 0 THEN 0 ELSE n.val]

\* the employeeName of the data object saveToMongoDB builds
payloadName ==
  LET n == IF build = "module" THEN Trim(nameInput) ELSE employeeName
  IN IF n = <<>> THEN Unknown ELSE n

\* the data object of saveToMongoDB
saveData == [employeeName |-> payloadName, metrics |-> collectFormData]

\* the object saveToLocalStorage serialises
localImage ==
  [present |-> TRUE, employeeName |-> employeeName, formData |-> inputs]

\* saveToLocalStorage() without its try/catch
saveToLocalStorageUncaught(ok) ==
  [cache |-> IF ok THEN localImage ELSE localCache, threw |-> ~ok]

\* saveToLocalStorage(): the entry afterwards and whether it threw; ok says
\* whether localStorage.setItem accepted the write
saveToLocalStorage(ok) ==
  [cache |-> IF ok THEN localImage ELSE localCache, threw |-> FALSE]

\* updateChart(): the data set of the chart, in tenths
chartData == [m \in MetricIds |-> validateInput(inputs[m])]

\* a fetch in flight; http is 0 until the server has carried the request
\* out, resp is the document it answered, stale says that the record in
\* memory was replaced after the call was made
Request(op, key, data) ==
  [op |-> op, key |-> key, data |-> data, http |-> 0, resp |-> NoDoc,
   stale |-> FALSE]

NoData == [employeeName |-> <<>>, metrics |-> ZeroMetrics]

One(r) == SetToBag({r})

MarkStale(B) ==
  LET S == { [r EXCEPT !.stale = TRUE] : r \in BagToSet(B) }
  IN [s \in S |-> CopiesIn(s, B) + CopiesIn([s EXCEPT !.stale = FALSE], B)]

(* --------------------------- editing handlers -------------------------- *)

\* 'input' event of a number input: debouncedUpdate
InputRating(m, v) ==
  /\ phase = "ready" /\ page = "app"
  /\ ~readOnly
  /\ inputs' = [inputs EXCEPT ![m] = v]
  /\ timers' = debounce(timers, "ratings", wait)
  /\ burst' = IF timers = <<>> THEN 0 ELSE burst
  /\ failed' = FALSE
  /\ messages' = <<>>
  /\ last' = Handler("inputRating")
  /\ UNCHANGED << build, user, downloaded, phase, readOnly, page, nameInput, employeeName,
                  currentAssessmentId, requests, store, localCache, token,
                  logoutPending, firstId >>

\* 'input' event of the name input: both listeners
InputName(v) ==
  /\ phase = "ready" /\ page = "app"
  /\ ~readOnly
  /\ nameInput' = v
  /\ employeeName' = sanitizeEmployeeName(v)
  /\ timers' = debounce(timers, "name", wait)
  /\ burst' = IF timers = <<>> THEN 0 ELSE burst
  /\ failed' = FALSE
  /\ messages' = <<>>
  /\ last' = Handler("inputName")
  /\ UNCHANGED << build, user, downloaded, phase, readOnly, page, inputs, currentAssessmentId, requests,
                  store, localCache, token, logoutPending, firstId >>

(* ------------------------------- saving -------------------------------- *)

\* saveToMongoDB() up to its first await; cap: the requests the connection
\* carries at a time
saveToMongoDB(trigger, quiet, nth, ok, cap) ==
  IF ~isAuthenticated(token)
  THEN LET w == saveToLocalStorage(ok) IN
       /\ requests' = requests
       /\ localCache' = w.cache
       /\ logoutPending' = (logoutPending \/ startsLogout(token))
       /\ messages' = <<>>
       /\ last' = [Handler("save") EXCEPT
                     !.trigger = trigger, !.op = "local", !.wrote = ok,
                     !.quiet = quiet, !.nth = nth,
                     !.raised = w.threw, !.afterFailure = failed,
                     !.cacheTouched = (w.cache # localCache)]
  ELSE LET op == IF currentAssessmentId # 0 THEN "update" ELSE "create" IN
       /\ BagCardinality(requests) < cap
       /\ requests' = requests (+) One(Request(op, currentAssessmentId,
                                                saveData))
       /\ localCache' = localCache
       /\ logoutPending' = logoutPending
       /\ messages' = <<>>
       /\ last' = [Handler("save") EXCEPT
                     !.trigger = trigger, !.op = op, !.issued = TRUE,
                     !.key = currentAssessmentId, !.quiet = quiet,
                     !.nth = nth,
                     !.bound = currentAssessmentId, !.afterFailure = failed]

\* the callback 'later' of a debounce closure: the timeout that is due
\* runs.  An edit made after it was armed has armed or re-armed a timeout
\* behind it, so the page was quiet for the whole delay exactly when no
\* other timeout is pending
TimerFire(o, ok, cap) ==
  /\ phase = "ready" /\ page = "app"
  /\ timers # <<>> /\ Head(timers).owner = o
  /\ timers' = Tail(timers)
  /\ burst' = IF Tail(timers) = <<>> THEN 0
              ELSE Min(burst + 1, MaxBurstCount)
  /\ saveToMongoDB(o, Tail(timers) = <<>>, burst + 1, ok, cap)
  /\ UNCHANGED << build, user, downloaded, phase, readOnly, page, inputs, nameInput, employeeName,
                  currentAssessmentId, store, token, failed, firstId >>

\* a keydown handler that leaves the save to a pending timeout
ManualSaveWhenIdle(ok, cap) ==
  /\ timers = <<>>
  /\ phase = "ready" /\ page = "app"
  /\ saveToMongoDB("manual", FALSE, 0, ok, cap)
  /\ failed' = FALSE
  /\ UNCHANGED << build, user, downloaded, phase, readOnly, page, inputs, nameInput, employeeName,
                  currentAssessmentId, timers, store, token,
                  burst, firstId >>

\* keydown Ctrl/Cmd+S
ManualSave(ok, cap) ==
  /\ phase = "ready" /\ page = "app"
  /\ saveToMongoDB("manual", FALSE, 0, ok, cap)
  /\ failed' = FALSE
  /\ UNCHANGED << build, user, downloaded, phase, readOnly, page, inputs, nameInput, employeeName,
                  currentAssessmentId, timers, store, token,
                  burst, firstId >>

(* ------------------------------- backend ------------------------------- *)

\* what a request may carry as its credential: a state of the token of the
\* page, a token of a user that is not there any more, or one whose
\* verification ends in another error
Credentials == TokenStates \cup {"orphan", "unverified"}

\* an authenticateToken that lets an expired token pass
authenticateTokenIgnoringExpiry(cred) ==
  CASE cred = "none" -> 401
    [] cred = "orphan" -> 401
    [] cred = "rejected" -> 403
    [] cred = "unverified" -> 500
    [] OTHER -> 0

\* authenticateToken: 0 when next() is called, else the status it answers
authenticateToken(cred) ==
  CASE cred = "none" -> 401
    [] cred = "orphan" -> 401
    [] cred = "expired" -> 403
    [] cred = "rejected" -> 403
    [] cred = "unverified" -> 500
    [] OTHER -> 0

\* the escape() sanitizer of the validation chain
RECURSIVE validatorEscape(_)
validatorEscape(s) ==
  IF s = <<>> THEN <<>>
  ELSE (CASE Head(s) = "&" -> <<"&", "a", "m", "p", ";">>
          [] Head(s) = "<" -> <<"&", "l", "t", ";">>
          [] Head(s) = ">" -> <<"&", "g", "t", ";">>
          [] Head(s) = "'" -> <<"&", "#", "x", "2", "7", ";">>
          [] Head(s) = "/" -> <<"&", "#", "x", "2", "F", ";">>
          [] OTHER -> <<Head(s)>>) \o validatorEscape(Tail(s))

\* whether the JSON object carries the field
Has(object, field) == field \in DOMAIN object

\* a validation chain that brings the ratings into the scale instead of
\* refusing them
validateAssessmentClamping(body) ==
  LET name == IF Has(body, "employeeName")
              THEN Trim(body.employeeName) ELSE <<>>
      ms   == IF Has(body, "metrics") THEN body.metrics ELSE << >>
      clamp(m) == IF ~Has(ms, m) \/ ms[m] < 0 THEN 0
                  ELSE IF ms[m] > 5 THEN 5 ELSE ms[m]
  IN
  [ok |-> name # <<>> /\ Len(name) <= 100,
   body |-> [employeeName |-> validatorEscape(name),
             metrics |-> [m \in MetricIds |-> clamp(m)]]]

\* validateAssessment: whether the chain passes, and the sanitised body.  A
\* field the body lacks is validated as the empty string
validateAssessment(body) ==
  LET name == IF Has(body, "employeeName")
              THEN Trim(body.employeeName) ELSE <<>>
      isInt(ms, m) == Has(ms, m) /\ ms[m] >= 0 /\ ms[m] <= 5
  IN
  [ok |-> /\ name # <<>>
          /\ Len(name) <= 100
          /\ Has(body, "metrics")
          /\ \A m \in MetricIds : isInt(body.metrics, m),
   body |-> [f \in DOMAIN body \cup {"employeeName"} |->
               IF f = "employeeName" THEN validatorEscape(name)
               ELSE body[f]]]

\* the filter { _id: id } alone
Exists(st, userId, id) == id \in 1..Len(st)

\* the filter { _id: id, userId: req.userId } finds a document
Owned(st, userId, id) == id \in 1..Len(st) /\ st[id].userId = userId

\* the place of a document that was deleted; identities are not reused
Deleted == [userId |-> "nobody", employeeName |-> <<>>, metrics |-> ZeroMetrics]

DocOf(st, id) ==
  [id |-> id, employeeName |-> st[id].employeeName,
   metrics |-> st[id].metrics]

\* getAssessment(req, res); dbok: the database answers
getAssessment(st, userId, id, dbok) ==
  IF ~dbok THEN [store |-> st, http |-> 500, doc |-> NoDoc]
  ELSE IF ~Owned(st, userId, id)
  THEN [store |-> st, http |-> 404, doc |-> NoDoc]
  ELSE [store |-> st, http |-> 200, doc |-> DocOf(st, id)]

\* createAssessment(req, res) with the owner read from the body when the
\* body names one
createAssessmentTrustingBody(st, userId, body, dbok) ==
  IF ~dbok THEN [store |-> st, http |-> 500, doc |-> NoDoc]
  ELSE LET new == Append(st, [userId |-> IF Has(body, "userId")
                                         THEN body.userId ELSE userId,
                              employeeName |-> Trim(body.employeeName),
                              metrics |-> body.metrics])
       IN [store |-> new, http |-> 201, doc |-> DocOf(new, Len(new))]

\* createAssessment(req, res)
createAssessment(st, userId, body, dbok) ==
  IF ~dbok THEN [store |-> st, http |-> 500, doc |-> NoDoc]
  ELSE LET new == Append(st, [userId |-> userId,
                              employeeName |-> Trim(body.employeeName),
                              metrics |-> body.metrics])
       IN [store |-> new, http |-> 201, doc |-> DocOf(new, Len(new))]

\* updateAssessment(req, res): a field is assigned when the body has it
updateAssessment(st, userId, id, body, dbok) ==
  IF ~dbok THEN [store |-> st, http |-> 500, doc |-> NoDoc]
  ELSE IF ~Owned(st, userId, id)
  THEN [store |-> st, http |-> 404, doc |-> NoDoc]
  ELSE LET new == [st EXCEPT ![id] =
                     [userId |-> st[id].userId,
                      employeeName |-> IF Has(body, "employeeName")
                                       THEN Trim(body.employeeName)
                                       ELSE st[id].employeeName,
                      metrics |-> IF Has(body, "metrics")
                                  THEN body.metrics ELSE st[id].metrics]]
       IN [store |-> new, http |-> 200, doc |-> DocOf(new, id)]

\* a deleteAssessment that answers without removing the document
deleteAssessmentKeepingDocument(st, userId, id, dbok) ==
  IF ~dbok THEN [store |-> st, http |-> 500, doc |-> NoDoc]
  ELSE IF ~Owned(st, userId, id)
  THEN [store |-> st, http |-> 404, doc |-> NoDoc]
  ELSE [store |-> st, http |-> 200, doc |-> NoDoc]

\* deleteAssessment(req, res)
deleteAssessment(st, userId, id, dbok) ==
  IF ~dbok THEN [store |-> st, http |-> 500, doc |-> NoDoc]
  ELSE IF ~Owned(st, userId, id)
  THEN [store |-> st, http |-> 404, doc |-> NoDoc]
  ELSE [store |-> [st EXCEPT ![id] = Deleted], http |-> 200, doc |-> NoDoc]

\* String.prototype.includes
Includes(text, part) ==
  \E i \in 1..(Len(text) - Len(part) + 1) :
    SubSeq(text, i, i + Len(part) - 1) = part

UpperCase ==
  <<"A", "B", "C", "D", "E", "F", "G", "H", "I", "J", "K", "L", "M",
    "N", "O", "P", "Q", "R", "S", "T", "U", "V", "W", "X", "Y", "Z">>

LowerCase ==
  <<"a", "b", "c", "d", "e", "f", "g", "h", "i", "j", "k", "l", "m",
    "n", "o", "p", "q", "r", "s", "t", "u", "v", "w", "x", "y", "z">>

\* String.prototype.toLowerCase
toLowerCase(text) ==
  [i \in 1..Len(text) |->
     IF \E k \in 1..Len(UpperCase) : UpperCase[k] = text[i]
     THEN LowerCase[CHOOSE k \in 1..Len(UpperCase) : UpperCase[k] = text[i]]
     ELSE text[i]]

\* the characters of the class [a-z0-9_-] under the flag i
FilenameChar(c) ==
  \/ IsDigit(c)
  \/ \E k \in 1..Len(UpperCase) : c = UpperCase[k] \/ c = LowerCase[k]
  \/ c \in {"_", "-"}

\* replace(/[^a-z0-9_-]/gi, '_')
replaceOthers(s) ==
  [i \in 1..Len(s) |-> IF FilenameChar(s[i]) THEN s[i] ELSE "_"]

\* replace(/_{2,}/g, '_')
RECURSIVE collapseUnderscores(_)
collapseUnderscores(s) ==
  IF Len(s) < 2 THEN s
  ELSE IF s[1] = "_" /\ s[2] = "_" THEN collapseUnderscores(Tail(s))
  ELSE <<s[1]>> \o collapseUnderscores(Tail(s))

\* the length sanitizeFilename cuts a name to
MaxNameKept == 50

\* String.prototype.substring(0, n)
substring(s, n) == SubSeq(s, 1, Min(n, Len(s)))

\* sanitizeFilename(name)
sanitizeFilename(name) ==
  substring(collapseUnderscores(replaceOthers(Trim(name))), MaxNameKept)

\* `${name}_assessment_${date}.csv`; the date is one symbol
assessmentFilename(name) == name \o <<"_assessment_", "date", ".csv">>

\* the filter getAssessments and exportToCSV build from the query: the
\* caller's documents whose name matches employeeName, a pattern of letters,
\* in any case
Matching(st, userId, query) ==
  { i \in 1..Len(st) :
      /\ st[i].userId = userId
      /\ query.employeeName # <<>> =>
           Includes(toLowerCase(st[i].employeeName),
                    toLowerCase(query.employeeName)) }

\* getAssessments(req, res): the identities of the documents of the first
\* page, which holds them all
getAssessments(st, userId, query, dbok) ==
  IF ~dbok THEN [store |-> st, http |-> 500, doc |-> NoDoc, ids |-> {}]
  ELSE [store |-> st, http |-> 200, doc |-> NoDoc,
        ids |-> Matching(st, userId, query)]

\* the header line "Categories,Ratings"
CsvHeader ==
  <<"C", "a", "t", "e", "g", "o", "r", "i", "e", "s", ",",
    "R", "a", "t", "i", "n", "g", "s">>

\* a line that separates its fields by a semicolon
CsvLineSemicolon(key, value) == <<key, ";">> \o value

\* the line `${key},${value}`; an identifier is one symbol of a line
CsvLine(key, value) == <<key, ",">> \o value

\* Array.prototype.join(',') of texts
RECURSIVE JoinComma(_)
JoinComma(texts) ==
  IF texts = <<>> THEN <<>>
  ELSE IF Len(texts) = 1 THEN texts[1]
  ELSE texts[1] \o <<",">> \o JoinComma(Tail(texts))

\* the identities in found in ascending order
RECURSIVE Ascending(_)
Ascending(found) ==
  IF found = {} THEN <<>>
  ELSE LET i == CHOOSE x \in found : \A y \in found : x <= y
       IN <<i>> \o Ascending(found \ {i})

\* the two-column file exportToCSV writes for one assessment
exportSingle(assessment) ==
  <<CsvHeader>>
  \o [i \in 1..Len(metricOrder) |->
        CsvLine(metricOrder[i], IntToText(assessment.metrics[metricOrder[i]]))]

\* the wide file exportToCSV writes for several assessments; the date of an
\* assessment is one symbol
exportWide(st, ids) ==
  << <<"Employee Name", ",", "Assessment Date", ",">>
     \o JoinComma([i \in 1..Len(metricOrder) |-> <<metricOrder[i]>>]) >>
  \o [k \in 1..Len(ids) |->
        <<"\"">> \o st[ids[k]].employeeName \o <<"\"", ",", "date", ",">>
        \o JoinComma([i \in 1..Len(metricOrder) |->
                        IntToText(st[ids[k]].metrics[metricOrder[i]])])]

\* exportToCSV(req, res): the identities of the documents written to the
\* file, the lines of the file and the filename of its Content-Disposition
exportToCSV(st, userId, query, dbok) ==
  LET found == IF query.ids # {}
               THEN { i \in query.ids : Owned(st, userId, i) }
               ELSE Matching(st, userId, query)
  IN IF ~dbok THEN [store |-> st, http |-> 500, doc |-> NoDoc, ids |-> {}]
     ELSE IF found = {}
     THEN [store |-> st, http |-> 404, doc |-> NoDoc, ids |-> {}]
     ELSE [store |-> st, http |-> 200, doc |-> NoDoc, ids |-> found,
           csv |-> IF Cardinality(found) = 1
                   THEN exportSingle(st[CHOOSE i \in found : TRUE])
                   ELSE exportWide(st, Ascending(found)),
           filename |->
             IF Cardinality(found) = 1
             THEN assessmentFilename(
                    st[CHOOSE i \in found : TRUE].employeeName)
             ELSE <<"assessments_export_", "date", ".csv">>]

\* String.prototype.split(',')
RECURSIVE SplitComma(_)
SplitComma(line) ==
  IF \A i \in 1..Len(line) : line[i] # "," THEN <<line>>
  ELSE LET k == CHOOSE i \in 1..Len(line) :
                  line[i] = "," /\ \A j \in 1..(i - 1) : line[j] # ","
       IN <<SubSeq(line, 1, k - 1)>>
          \o SplitComma(SubSeq(line, k + 1, Len(line)))

\* [category, rating] = line.split(',').map(s => s.trim()) of a trimmed
\* line: the symbol the first field consists of, none where it holds more
\* or less than one symbol, and the text of the second field, empty where
\* the line has no second field
csvRow(line) ==
  LET fields == SplitComma(Trim(line))
      first  == Trim(fields[1])
  IN [category |-> IF Len(first) = 1 THEN first[1] ELSE "",
      rating   |-> IF Len(fields) > 1 THEN Trim(fields[2]) ELSE <<>>]

\* the rows of the lines after the header, blank lines passed over
RECURSIVE csvRows(_)
csvRows(lines) ==
  IF lines = <<>> THEN <<>>
  ELSE IF Trim(Head(lines)) = <<>> THEN csvRows(Tail(lines))
  ELSE <<csvRow(Head(lines))>> \o csvRows(Tail(lines))

\* the file whose text is the given lines, as both imports read it; the
\* lines are content.trim().split('\n'), of which the last is not blank, so
\* that there are rows exactly when there are two lines or more; no lines:
\* no file
readCsv(lines) ==
  IF lines = <<>> THEN [present |-> FALSE, header |-> <<>>, rows |-> <<>>]
  ELSE [present |-> TRUE, header |-> Head(lines),
        rows |-> csvRows(Tail(lines))]

\* the metrics of the rows with the test of the rating left out
RECURSIVE csvMetricsUnchecked(_)
csvMetricsUnchecked(rows) ==
  IF rows = <<>> THEN << >>
  ELSE LET row   == rows[Len(rows)]
           value == parseInt(row.rating)
           rest  == csvMetricsUnchecked(SubSeq(rows, 1, Len(rows) - 1))
       IN IF value.nan THEN rest
          ELSE (row.category :> value.val) @@ rest

\* the metrics importFromCSV reads from the rows after the header; a row is
\* its category and the text of its rating, and a later row of a category
\* replaces an earlier one
RECURSIVE csvMetrics(_)
csvMetrics(rows) ==
  IF rows = <<>> THEN << >>
  ELSE LET row   == rows[Len(rows)]
           value == parseInt(row.rating)
           rest  == csvMetrics(SubSeq(rows, 1, Len(rows) - 1))
       IN IF value.nan \/ value.val < 0 \/ value.val > 5 THEN rest
          ELSE (row.category :> value.val) @@ rest

\* the rows importFromCSV pushes a message to errors for, in their order
csvErrors(rows) ==
  SelectSeq(rows, LAMBDA row :
    LET value == parseInt(row.rating)
    IN value.nan \/ value.val < 0 \/ value.val > 5)

\* the list without the metrics of the last theme
requiredMetricsOfThreeThemes ==
  <<"sharedVision", "strategy", "businessAlignment", "customerFocus",
    "crossFunctionalTeams", "clarityInPriorities", "acceptanceCriteria",
    "enablingFocus", "engagement",
    "feedback", "enablingAutonomy", "changeAndAmbiguity", "desiredCulture",
    "workAutonomously">>

\* the identifiers importFromCSV requires, in its order
requiredMetrics ==
  <<"sharedVision", "strategy", "businessAlignment", "customerFocus",
    "crossFunctionalTeams", "clarityInPriorities", "acceptanceCriteria",
    "enablingFocus", "engagement",
    "feedback", "enablingAutonomy", "changeAndAmbiguity", "desiredCulture",
    "workAutonomously",
    "stakeholders", "teamAttrition", "teams", "developingPeople",
    "subordinatesForSuccess">>

\* importFromCSV(req, res); file: the upload, absent or a header line and
\* its rows.  Besides the status, the answer carries its message, the
\* list missing of a 400 for an incomplete file and the list errors of a
\* 201, which is left out when it is empty
importFromCSV(st, userId, body, file, dbok) ==
  LET name    == IF Has(body, "employeeName") /\ body.employeeName # <<>>
                 THEN body.employeeName ELSE Unknown
      metrics == csvMetrics(file.rows)
      errors  == csvErrors(file.rows)
      missingMetrics ==
        SelectSeq(requiredMetrics, LAMBDA metric : ~Has(metrics, metric))
      new     == Append(st, [userId |-> userId,
                             employeeName |-> Trim(name),
                             metrics |-> [m \in MetricIds |-> metrics[m]]])
  IN IF ~file.present
     THEN [store |-> st, http |-> 400, doc |-> NoDoc,
           message |-> "CSV file is required"]
     ELSE IF file.rows = <<>>
     THEN [store |-> st, http |-> 400, doc |-> NoDoc,
           message |-> "CSV file is empty or invalid"]
     ELSE IF ~( /\ Includes(toLowerCase(file.header), toLowerCase(
                              SubSeq(CsvHeader, 1, 10)))
                /\ Includes(toLowerCase(file.header), toLowerCase(
                              SubSeq(CsvHeader, 12, 18))) )
     THEN [store |-> st, http |-> 400, doc |-> NoDoc,
           message |-> "Invalid CSV format"]
     ELSE IF missingMetrics # <<>>
     THEN [store |-> st, http |-> 400, doc |-> NoDoc,
           message |-> "Missing required metrics",
           missing |-> missingMetrics]
     ELSE IF ~dbok \/ Trim(name) = <<>>
     THEN [store |-> st, http |-> 500, doc |-> NoDoc,
           message |-> "Failed to import CSV"]
     ELSE [store |-> new, http |-> 201, doc |-> DocOf(new, Len(new)),
           message |-> "CSV imported successfully"]
          @@ (IF errors # <<>> THEN [errors |-> errors] ELSE << >>)

\* the routes of the assessments router, for a request that passed
\* authenticateToken as userId
routeAs(st, userId, r, dbok) ==
  LET v == validateAssessment(r.data) IN
  CASE r.op = "list"   -> getAssessments(st, userId, r.query, dbok)
    [] r.op = "export" -> exportToCSV(st, userId, r.query, dbok)
    [] r.op = "get"    -> getAssessment(st, userId, r.key, dbok)
    [] r.op = "import" -> importFromCSV(st, userId, r.data, r.file, dbok)
    [] r.op = "delete" -> deleteAssessment(st, userId, r.key, dbok)
    [] r.op = "create" ->
         IF ~v.ok THEN [store |-> st, http |-> 400, doc |-> NoDoc]
         ELSE createAssessment(st, userId, v.body, dbok)
    [] r.op = "update" ->
         IF ~v.ok THEN [store |-> st, http |-> 400, doc |-> NoDoc]
         ELSE updateAssessment(st, userId, r.key, v.body, dbok)

\* the assessments router: authenticateToken, then the route's chain.  The
\* token is verified when the request is served
route(st, r, cred, dbok) ==
  LET a == authenticateToken(cred) IN
  IF a # 0 THEN [store |-> st, http |-> a, doc |-> NoDoc]
  ELSE routeAs(st, TheUser, r, dbok)

\* what the continuation of request r reads of the document answered: all
\* of it after a get, response.assessment._id after a create or an update
answer(r, doc) == IF r.op = "get" THEN doc ELSE [NoDoc EXCEPT !.id = doc.id]

OkStatuses == {200, 201}

NetworkError == 0 - 1

\* the server carries out request r; its answer is on its way
ServerHandle(r) ==
  /\ BagIn(r, requests)
  /\ r.http = 0
  /\ LET res == route(store, r, token, TRUE) IN
       /\ res.http \in OkStatuses
       /\ Len(res.store) <= MaxRecords
       /\ store' = res.store
       /\ requests' = (requests (-) One(r))
                      (+) One([r EXCEPT !.http = res.http,
                                        !.resp = answer(r, res.doc)])
  /\ UNCHANGED << build, user, downloaded, phase, readOnly, page, inputs, nameInput, employeeName,
                  currentAssessmentId, timers, localCache, token,
                  logoutPending, messages, burst, failed, firstId,
                  last >>

\* what fetch can settle with for request r: the answer of the server that
\* carried it out or a network error in its place; for a request not
\* carried out, a network error or the error status the router answers
Settles(r, status) ==
  IF r.http # 0 THEN status \in {r.http, NetworkError}
  ELSE \/ status = NetworkError
       \/ /\ status \notin OkStatuses
          /\ \E dbok \in BOOLEAN : route(store, r, token, dbok).http = status

Statuses == {NetworkError, 200, 201, 400, 401, 403, 404, 500}

\* APIClient.request: whether it returns the body instead of throwing
responseOk(status) == status \in OkStatuses

(* ------------------------- clients of the API -------------------------- *)

\* a rating for the first metric, 0 for the others
Ratings(v) == [ZeroMetrics EXCEPT ![Head(metricOrder)] = v]

\* the bodies a client may send: complete ones with a valid or a blank name
\* and a rating inside or outside the scale, one that names an owner, and
\* ones that lack the name, the metrics, one metric, or everything
ApiBodies ==
  { [employeeName |-> <<"A">>, metrics |-> Ratings(v)] :
      v \in {0, 5, 6, 0 - 1} }
  \cup { [employeeName |-> <<" ">>, metrics |-> Ratings(0)],
         [userId |-> "u2", employeeName |-> <<"A">>,
          metrics |-> Ratings(5)],
         [employeeName |-> <<"B">>],
         [metrics |-> Ratings(5)],
         [employeeName |-> <<"B">>,
          metrics |-> [m \in MetricIds \ {Head(metricOrder)} |-> 0]],
         << >> }

NoFile == [present |-> FALSE, header |-> <<>>, rows |-> <<>>]

\* the file exportToCSV writes for one document, with the given text as
\* the rating of the first metric
CsvFile(first) ==
  [present |-> TRUE, header |-> CsvHeader,
   rows |-> [i \in 1..Len(metricOrder) |->
               [category |-> metricOrder[i],
                rating |-> IF i = 1 THEN first ELSE IntToText(0)]]]

ApiFiles == { NoFile, CsvFile(<<"5">>), CsvFile(<<"7">>) }

NoQuery == [ids |-> {}, employeeName |-> <<>>]

ApiQueries ==
  { [ids |-> ids, employeeName |-> n] :
      ids \in { {}, 1..MaxRecords }, n \in { <<>>, <<"a">> } }

ApiRequest(op, key, data, query, file) ==
  [op |-> op, key |-> key, data |-> data, query |-> query, file |-> file]

\* the requests of the API
ApiRequests ==
  { ApiRequest("list", 0, << >>, q, NoFile) :
      q \in { x \in ApiQueries : x.ids = {} } }
  \cup { ApiRequest("export", 0, << >>, q, NoFile) : q \in ApiQueries }
  \cup { ApiRequest(op, id, << >>, NoQuery, NoFile) :
           op \in {"get", "delete"}, id \in 1..MaxRecords }
  \cup { ApiRequest("create", 0, b, NoQuery, NoFile) : b \in ApiBodies }
  \cup { ApiRequest("update", id, b, NoQuery, NoFile) :
           id \in 1..MaxRecords, b \in ApiBodies }
  \cup { ApiRequest("import", 0,
                      [userId |-> "u2", employeeName |-> <<"A">>],
                      NoQuery, f) : f \in ApiFiles }

\* the requests that add a document
AddingRequests ==
  { r \in ApiRequests :
      /\ r.op \in {"create", "import"}
      /\ r.op = "create" =>
           r.data = [employeeName |-> <<"A">>, metrics |-> Ratings(5)]
      /\ r.op = "import" => r.file = CsvFile(<<"5">>) }

\* what the body of an answer says besides its documents
Reported(res) ==
  [k \in DOMAIN res \ {"store", "http", "doc", "ids", "csv", "filename"} |->
     res[k]]

\* the name under which the browser saves the file of an answer
Filename(res) == IF Has(res, "filename") THEN res.filename ELSE <<>>

\* the file on the disk of the user after the answer res, whose file the
\* caller saves or drops
Saved(res, saves) ==
  IF saves /\ Has(res, "csv") THEN res.csv ELSE downloaded

\* the documents an answer carries
Returned(res) ==
  IF Has(res, "ids") THEN res.ids
  ELSE IF res.doc.id # 0 THEN {res.doc.id} ELSE {}

\* a client signed in as u sends request r and the server answers it;
\* saves: whether the client writes the file of an export to disk
ApiAnswer(u, r, dbok, saves) ==
  /\ \E res \in {routeAs(store, u, r, dbok)} :
       /\ Len(res.store) <= MaxRecords
       /\ store' = res.store
       /\ downloaded' = Saved(res, saves)
       /\ last' = [caller |-> u, cred |-> "valid", data |-> r.data,
                   file |-> r.file, filename |-> Filename(res),
                   returned |-> Returned(res), reported |-> Reported(res)]
                  @@ [Handler("api") EXCEPT !.op = r.op, !.key = r.key,
                                            !.status = res.http]
  /\ UNCHANGED << build, user, phase, readOnly, page, inputs, nameInput,
                  employeeName, currentAssessmentId, timers, requests,
                  localCache, token, logoutPending, messages, burst,
                  failed, firstId >>

\* a client that keeps no file
ApiCall(u, r, dbok) == ApiAnswer(u, r, dbok, FALSE)

\* the user of the page exports and saves the file
ApiDownload(r) == r.op = "export" /\ ApiAnswer(TheUser, r, TRUE, TRUE)

\* the requests that would read or change documents when let through: one
\* of each operation, well-formed
EffectiveRequests ==
  { r \in ApiRequests :
      /\ r.query = NoQuery
      /\ r.op = "create" =>
           r.data = [employeeName |-> <<"A">>, metrics |-> Ratings(5)]
      /\ r.op = "update" =>
           r.data = [employeeName |-> <<"A">>, metrics |-> Ratings(0)]
      /\ r.op = "import" => r.file = CsvFile(<<"5">>) }

\* a client of the user of the page sends request r with the credential
\* cred in its Authorization header
ApiCallWithCredential(cred, r) ==
  /\ \E res \in {route(store, r, cred, TRUE)} :
       /\ Len(res.store) <= MaxRecords
       /\ store' = res.store
       /\ downloaded' = Saved(res, FALSE)
       /\ last' = [caller |-> TheUser, cred |-> cred, data |-> r.data,
                   file |-> r.file, filename |-> Filename(res),
                   returned |-> Returned(res), reported |-> Reported(res)]
                  @@ [Handler("api") EXCEPT !.op = r.op, !.key = r.key,
                                            !.status = res.http]
  /\ UNCHANGED << build, user, phase, readOnly, page, inputs, nameInput,
                  employeeName, currentAssessmentId, timers, requests,
                  localCache, token, logoutPending, messages, burst,
                  failed, firstId >>

(* --------------------- continuations of the client --------------------- *)

DegradedNotice == "Saved locally (offline mode)"

\* a catch block that calls the operation again
catchSaveRetrying(r) ==
  [requests |-> (requests (-) One(r))
                (+) One(Request(r.op, currentAssessmentId, saveData)),
   messages |-> <<"Could not save to database", DegradedNotice>>]

\* the catch block of saveToMongoDB(): the requests outstanding and the
\* messages shown afterwards
catchSave(r) ==
  [requests |-> requests (-) One(r),
   messages |-> <<"Could not save to database", DegradedNotice>>]

\* saveToMongoDB() after its await: the rest of the try block, or the catch
SaveResponse(r, status, ok) ==
  /\ phase = "ready" /\ page = "app"
  /\ BagIn(r, requests)
  /\ r.op \in {"create", "update"}
  /\ Settles(r, status)
  /\ LET w == saveToLocalStorage(ok) IN
        /\ localCache' = w.cache
        /\ IF responseOk(status)
           THEN /\ requests' = requests (-) One(r)
                /\ currentAssessmentId' =
                     IF r.op = "create" THEN r.resp.id
                     ELSE currentAssessmentId
                /\ firstId' = IF r.op = "create" /\ ~r.stale /\ firstId = 0
                              THEN r.resp.id ELSE firstId
                /\ messages' = IF r.op = "create"
                               THEN <<"Assessment saved to database">>
                               ELSE <<"Assessment updated successfully">>
                /\ failed' = failed
                /\ last' = [Handler("saved") EXCEPT
                              !.op = r.op, !.key = r.key, !.stale = r.stale,
                              !.bound = currentAssessmentId,
                              !.status = status,
                              !.wrote = ok, !.raised = w.threw,
                              !.cacheTouched = (w.cache # localCache)]
           ELSE /\ requests' = catchSave(r).requests
                /\ currentAssessmentId' = currentAssessmentId
                /\ firstId' = firstId
                /\ messages' = catchSave(r).messages
                /\ failed' = TRUE
                /\ last' = [Handler("fallback") EXCEPT
                              !.op = r.op, !.key = r.key, !.stale = r.stale,
                              !.issued = BagCardinality(catchSave(r).requests)
                                         >= BagCardinality(requests),
                              !.bound = currentAssessmentId,
                              !.status = status,
                              !.wrote = ok, !.raised = w.threw,
                              !.cacheTouched = (w.cache # localCache)]
  /\ UNCHANGED << build, user, downloaded, phase, readOnly, page, inputs, nameInput, employeeName, timers,
                  store, token, logoutPending, burst >>

\* whether the client finds the assessment in the body of GET /:id, which
\* is the document itself: script.js reads response.assessment, the combined
\* build reads the body
readsAssessment(b) == b = "combined"

\* the error loadAssessment shows to a user who is not signed in
loginNotice(b) ==
  IF b = "combined" THEN "Please login to load assessments"
  ELSE "Please log in to load assessments"

\* the error loadAssessment shows from its catch block
loadFailedNotice(b) ==
  IF b = "combined" THEN "Could not load assessment"
  ELSE "Failed to load assessment"

\* loadAssessment with a catch block that falls back to client storage
LoadResponseFallingBack(r, status) ==
  /\ phase = "ready" /\ page = "app"
  /\ BagIn(r, requests)
  /\ r.op = "get"
  /\ Settles(r, status)
  /\ IF responseOk(status) /\ readsAssessment(build)
     THEN /\ nameInput' = r.resp.employeeName
          /\ employeeName' = r.resp.employeeName
          /\ inputs' = [m \in MetricIds |-> IntToText(r.resp.metrics[m])]
          /\ currentAssessmentId' = r.key
          /\ firstId' = 0
          /\ requests' = MarkStale(requests (-) One(r))
          /\ messages' = <<"Assessment loaded successfully">>
          /\ last' = [Handler("loaded") EXCEPT !.op = "get", !.key = r.key,
                                               !.status = status]
     ELSE /\ requests' = requests (-) One(r)
          /\ messages' = <<loadFailedNotice(build)>>
          /\ last' = [Handler("loadFailed") EXCEPT !.op = "get",
                                                   !.key = r.key,
                                                   !.status = status]
          /\ inputs' = IF localCache.present THEN localCache.formData
                        ELSE inputs
          /\ UNCHANGED << nameInput, employeeName,
                          currentAssessmentId, firstId >>
  /\ UNCHANGED << build, user, downloaded, phase, readOnly, page, timers, store, localCache,
                  token, logoutPending, burst, failed >>

\* loadAssessment(assessmentId) after its await
LoadResponse(r, status) ==
  /\ phase = "ready" /\ page = "app"
  /\ BagIn(r, requests)
  /\ r.op = "get"
  /\ Settles(r, status)
  /\ IF responseOk(status) /\ readsAssessment(build)
     THEN /\ nameInput' = r.resp.employeeName
          /\ employeeName' = r.resp.employeeName
          /\ inputs' = [m \in MetricIds |-> IntToText(r.resp.metrics[m])]
          /\ currentAssessmentId' = r.key
          /\ firstId' = 0
          /\ requests' = MarkStale(requests (-) One(r))
          /\ messages' = <<"Assessment loaded successfully">>
          /\ last' = [Handler("loaded") EXCEPT !.op = "get", !.key = r.key,
                                               !.status = status]
     ELSE /\ requests' = requests (-) One(r)
          /\ messages' = <<loadFailedNotice(build)>>
          /\ last' = [Handler("loadFailed") EXCEPT !.op = "get",
                                                   !.key = r.key,
                                                   !.status = status]
          /\ UNCHANGED << nameInput, employeeName, inputs,
                          currentAssessmentId, firstId >>
  /\ UNCHANGED << build, user, downloaded, phase, readOnly, page, timers, store, localCache,
                  token, logoutPending, burst, failed >>

(* ----------------------- loading and starting over --------------------- *)

\* loadAssessment(assessmentId) up to its first await
loadAssessment(id, act, cap, notices) ==
  IF ~isAuthenticated(token)
  THEN /\ requests' = requests
       /\ logoutPending' = (logoutPending \/ startsLogout(token))
       /\ messages' = <<loginNotice(build)>> \o notices
       /\ last' = [Handler(act) EXCEPT !.op = "local", !.key = id]
  ELSE /\ BagCardinality(requests) < cap
       /\ requests' = requests (+) One(Request("get", id, NoData))
       /\ logoutPending' = logoutPending
       /\ messages' = notices
       /\ last' = [Handler(act) EXCEPT !.op = "get", !.key = id,
                                       !.issued = TRUE]

\* window.loadAssessment(assessmentId)
LoadAssessment(id, cap) ==
  /\ phase = "ready" /\ page = "app"
  /\ loadAssessment(id, "load", cap, <<>>)
  /\ UNCHANGED << build, user, downloaded, phase, readOnly, page, inputs, nameInput, employeeName,
                  currentAssessmentId, timers, store, localCache,
                  token, burst, failed, firstId >>

\* setReadOnlyMode(readOnly): the messages it shows
setReadOnlyMode(ro) ==
  IF ro THEN <<"Viewing assessment in read-only mode">> ELSE <<>>

\* init(): loadAssessment(assessmentId) when the URL names one, and
\* setReadOnlyMode(true) when its mode is 'view', else
\* loadFromLocalStorage(); id = 0 stands for a URL without assessmentId
PageInit(id, mode, cap) ==
  /\ phase = "constructed" /\ page = "app"
  /\ phase' = "ready"
  /\ readOnly' = (id # 0 /\ mode = "view")
  /\ IF id # 0
     THEN /\ loadAssessment(id, "init", cap,
                           setReadOnlyMode(mode = "view"))
          /\ UNCHANGED << inputs, nameInput, employeeName >>
     ELSE /\ IF localCache.present
             THEN /\ inputs' = localCache.formData
                  /\ IF localCache.employeeName # <<>>
                     THEN /\ nameInput' = localCache.employeeName
                          /\ employeeName' = localCache.employeeName
                     ELSE UNCHANGED << nameInput, employeeName >>
             ELSE UNCHANGED << inputs, nameInput, employeeName >>
          /\ messages' = <<>>
          /\ last' = Handler("init")
          /\ UNCHANGED << requests, logoutPending >>
  /\ UNCHANGED << build, user, downloaded, page, currentAssessmentId, timers, store,
                  localCache, token, burst, failed, firstId >>

\* clearAll(): the inputs, the name and the cache entry afterwards
clearAll ==
  [inputs |-> [m \in MetricIds |-> IntToText(0)],
   nameInput |-> <<>>, employeeName |-> <<>>, cache |-> NoCache]

\* a clearAll() that also forgets the identity
ClearAllAndIdentity ==
  /\ phase = "ready" /\ page = "app"
  /\ inputs' = clearAll.inputs
  /\ nameInput' = clearAll.nameInput
  /\ employeeName' = clearAll.employeeName
  /\ localCache' = clearAll.cache
  /\ currentAssessmentId' = 0
  /\ messages' = <<"All values have been cleared">>
  /\ last' = [Handler("clear") EXCEPT
                !.cacheTouched = (clearAll.cache # localCache)]
  /\ UNCHANGED << build, user, downloaded, phase, readOnly, page, timers,
                  requests, store, token, logoutPending, burst,
                  failed, firstId >>

\* window.clearAll()
ClearAll ==
  /\ phase = "ready" /\ page = "app"
  /\ inputs' = clearAll.inputs
  /\ nameInput' = clearAll.nameInput
  /\ employeeName' = clearAll.employeeName
  /\ localCache' = clearAll.cache
  /\ messages' = <<"All values have been cleared">>
  /\ last' = [Handler("clear") EXCEPT
                !.cacheTouched = (clearAll.cache # localCache)]
  /\ UNCHANGED << build, user, downloaded, phase, readOnly, page, currentAssessmentId, timers,
                  requests, store, token, logoutPending, burst,
                  failed, firstId >>

(* --------------------------- CSV on the page --------------------------- *)

\* saveToCSV(): the lines of the file, the header and one line per entry
\* of the form, which are the number inputs in the order of the themes
saveToCSV ==
  <<CsvHeader>>
  \o [i \in 1..Len(metricOrder) |->
        CsvLine(metricOrder[i], inputs[metricOrder[i]])]

\* saveToCSV(): the download attribute of the link
saveToCSVFilename ==
  assessmentFilename(IF employeeName # <<>>
                     THEN sanitizeFilename(employeeName)
                     ELSE <<"u", "s", "e", "r">>)

\* window.saveToCSV()
SaveToCSV ==
  /\ phase = "ready" /\ page = "app"
  /\ downloaded' = saveToCSV
  /\ last' = [filename |-> saveToCSVFilename] @@ Handler("saveCSV")
  /\ UNCHANGED << build, user, phase, readOnly, page, inputs, nameInput,
                  employeeName, currentAssessmentId, timers, requests,
                  store, localCache, token, logoutPending, messages,
                  burst, failed, firstId >>

\* the value a row gives its input
csvValue(rating) == TenthsToText(validateInput(rating))

\* the loop of parseAndLoadCSV over the rows of known metrics: each sets
\* its input
RECURSIVE loadRows(_, _)
loadRows(form, rows) ==
  IF rows = <<>> THEN form
  ELSE loadRows([form EXCEPT ![Head(rows).category] =
                               csvValue(Head(rows).rating)],
                Tail(rows))

\* parseAndLoadCSV without the test of the header
parseAndLoadCSVAnyHeader(file) ==
  LET rows   == file.rows
      known  == SelectSeq(rows, LAMBDA row : row.category \in MetricIds)
      blank  == [error |-> "none", inputs |-> inputs, loaded |-> 0,
                 warned |-> 0]
  IN IF rows = <<>>
     THEN [blank EXCEPT !.error = "CSV file is empty or invalid"]
     ELSE IF known = <<>>
     THEN [blank EXCEPT !.error = "No valid data found in CSV file",
                        !.warned = Len(rows)]
     ELSE [error  |-> "none",
           inputs |-> loadRows(inputs, known),
           loaded |-> Len(known),
           warned |-> Len(rows) - Len(known)]

\* parseAndLoadCSV(csvContent) on the file read: the error it throws, the
\* inputs afterwards, the rows it loaded and the rows it warned about on
\* the console
parseAndLoadCSV(file) ==
  LET header == toLowerCase(file.header)
      rows   == file.rows
      known  == SelectSeq(rows, LAMBDA row : row.category \in MetricIds)
      blank  == [error |-> "none", inputs |-> inputs, loaded |-> 0,
                 warned |-> 0]
  IN IF rows = <<>>
     THEN [blank EXCEPT !.error = "CSV file is empty or invalid"]
     ELSE IF ~( /\ Includes(header, toLowerCase(SubSeq(CsvHeader, 1, 10)))
                /\ Includes(header, toLowerCase(SubSeq(CsvHeader, 12, 18))) )
     THEN [blank EXCEPT !.error = "Invalid CSV format"]
     ELSE IF known = <<>>
     THEN [blank EXCEPT !.error = "No valid data found in CSV file",
                        !.warned = Len(rows)]
     ELSE [error  |-> "none",
           inputs |-> loadRows(inputs, known),
           loaded |-> Len(known),
           warned |-> Len(rows) - Len(known)]

\* loadFromCSV() with saveToLocalStorage() in a finally block
LoadFromCSVSavingAnyway(file, ok) ==
  /\ phase = "ready" /\ page = "app"
  /\ file.present
  /\ \E res \in {parseAndLoadCSV(file)} :
       /\ inputs' = res.inputs
       /\ localCache' = IF ok
                         THEN [localImage EXCEPT !.formData = res.inputs]
                         ELSE localCache
       /\ messages' = IF res.error = "none"
                       THEN <<"Successfully loaded ratings from CSV">>
                       ELSE <<"Failed to load CSV file">>
       /\ last' = [file |-> file]
                  @@ [Handler("loadCSV") EXCEPT
                        !.error = res.error, !.loaded = res.loaded,
                        !.warned = res.warned,
                        !.cacheTouched = (localCache' # localCache)]
  /\ UNCHANGED << build, user, downloaded, phase, readOnly, page, nameInput,
                  employeeName, currentAssessmentId, timers, requests,
                  store, token, logoutPending, burst, failed, firstId >>

\* loadFromCSV(): the user chose the given file and the reader has read it;
\* ok: whether client storage accepts a write
LoadFromCSV(file, ok) ==
  /\ phase = "ready" /\ page = "app"
  /\ file.present
  /\ \E res \in {parseAndLoadCSV(file)} :
       /\ inputs' = res.inputs
       /\ localCache' = IF res.error = "none" /\ ok
                         THEN [localImage EXCEPT !.formData = res.inputs]
                         ELSE localCache
       /\ messages' = IF res.error = "none"
                       THEN <<"Successfully loaded ratings from CSV">>
                       ELSE <<"Failed to load CSV file">>
       /\ last' = [file |-> file]
                  @@ [Handler("loadCSV") EXCEPT
                        !.error = res.error, !.loaded = res.loaded,
                        !.warned = res.warned,
                        !.cacheTouched = (localCache' # localCache)]
  /\ UNCHANGED << build, user, downloaded, phase, readOnly, page, nameInput,
                  employeeName, currentAssessmentId, timers, requests,
                  store, token, logoutPending, burst, failed, firstId >>

\* newAssessment() without its first statement
NewAssessmentKeepingIdentity ==
  /\ phase = "ready" /\ page = "app"
  /\ inputs' = clearAll.inputs
  /\ nameInput' = clearAll.nameInput
  /\ employeeName' = clearAll.employeeName
  /\ localCache' = clearAll.cache
  /\ messages' = <<"All values have been cleared",
                   "Ready for new assessment">>
  /\ last' = [Handler("new") EXCEPT
                !.bound = currentAssessmentId,
                !.cacheTouched = (clearAll.cache # localCache)]
  /\ UNCHANGED << build, user, downloaded, phase, readOnly, page, timers, store, token,
                  logoutPending, burst, failed, currentAssessmentId,
                  requests, firstId >>

\* window.newAssessment()
NewAssessment ==
  /\ phase = "ready" /\ page = "app"
  /\ currentAssessmentId' = 0
  /\ inputs' = clearAll.inputs
  /\ nameInput' = clearAll.nameInput
  /\ employeeName' = clearAll.employeeName
  /\ localCache' = clearAll.cache
  /\ messages' = <<"All values have been cleared",
                   "Ready for new assessment">>
  /\ requests' = MarkStale(requests)
  /\ firstId' = 0
  /\ last' = [Handler("new") EXCEPT
                !.bound = currentAssessmentId,
                !.cacheTouched = (clearAll.cache # localCache)]
  /\ UNCHANGED << build, user, downloaded, phase, readOnly, page, timers, store, token,
                  logoutPending, burst, failed >>

(* ------------------------------ the session ---------------------------- *)

\* the clock passes the exp claim of the token
TokenExpires ==
  /\ page = "app"
  /\ token \in {"valid", "rejected"}
  /\ token' = "expired"
  /\ UNCHANGED << build, user, downloaded, phase, readOnly, page, inputs, nameInput, employeeName,
                  currentAssessmentId, timers, requests, store,
                  localCache, logoutPending, messages, burst,
                  failed, firstId, last >>

\* the user signs out: AuthManager.logout() up to its await
Logout ==
  /\ page = "app"
  /\ ~logoutPending
  /\ logoutPending' = TRUE
  /\ UNCHANGED << build, user, downloaded, phase, readOnly, page, inputs,
                  nameInput, employeeName, currentAssessmentId, timers,
                  requests, store, localCache, token, messages, burst,
                  failed, firstId, last >>

\* what POST /auth/logout settles with: the answer of authenticateToken and
\* the route, or a network error
LogoutStatuses(cred) ==
  {NetworkError, IF authenticateToken(cred) = 0 THEN 200
                 ELSE authenticateToken(cred)}

\* a logout whose clean-up stands at the end of the try blocks
LogoutCompleteOnSuccess(status) ==
  /\ page = "app"
  /\ logoutPending
  /\ status \in LogoutStatuses(token)
  /\ token' = IF responseOk(status) THEN "none" ELSE token
  /\ user' = IF responseOk(status) THEN "none" ELSE user
  /\ localCache' = IF responseOk(status) THEN NoCache ELSE localCache
  /\ logoutPending' = FALSE
  /\ page' = "login"
  /\ messages' = <<>>
  /\ last' = [Handler("logout") EXCEPT
                !.status = status,
                !.afterUnauth = (last.act = "save" /\ last.op = "local"
                                 /\ last.wrote),
                !.cacheTouched = (localCache # NoCache)]
  /\ UNCHANGED << build, downloaded, phase, readOnly, inputs, nameInput,
                  employeeName, currentAssessmentId, timers, requests,
                  store, burst, failed, firstId >>

\* AuthManager.logout() after api.logout() settled with the given status:
\* the finally block of APIClient.logout and that of AuthManager.logout
LogoutComplete(status) ==
  /\ page = "app"
  /\ logoutPending
  /\ status \in LogoutStatuses(token)
  /\ token' = "none"
  /\ user' = "none"
  /\ localCache' = NoCache
  /\ logoutPending' = FALSE
  /\ page' = "login"
  /\ messages' = <<>>
  /\ last' = [Handler("logout") EXCEPT
                !.status = status,
                !.afterUnauth = (last.act = "save" /\ last.op = "local"
                                 /\ last.wrote),
                !.cacheTouched = (localCache # NoCache)]
  /\ UNCHANGED << build, downloaded, phase, readOnly, inputs, nameInput, employeeName,
                  currentAssessmentId, timers, requests, store,
                  burst, failed, firstId >>

(* ---------------------------- specifications -------------------------- *)

\* the events of an editing session: the user types the given texts, the
\* timeouts run, requests are carried out and settle; oks: whether client
\* storage accepts a write
Step(raws, names, oks, cap) ==
  \/ PageInit(0, "edit", cap)
  \/ \E m \in EditableMetrics, v \in raws : InputRating(m, v)
  \/ \E v \in names : InputName(v)
  \/ \E o \in TimerOwners, ok \in oks : TimerFire(o, ok, cap)
  \/ \E ok \in oks : ManualSave(ok, cap)
  \/ \E r \in BagToSet(requests) : ServerHandle(r)
  \/ \E r \in BagToSet(requests), st \in Statuses, ok \in oks :
       SaveResponse(r, st, ok)
  \/ NewAssessment

\* the credential runs out and the logout it causes completes
SessionStep ==
  \/ TokenExpires
  \/ \E status \in Statuses : LogoutComplete(status)

\* the mode parameter of the URL
Modes == {"edit", "view"}

\* assessments are opened by identity, from the URL or from the list
LoadStep(cap) ==
  \/ \E id \in 1..MaxRecords, mode \in Modes : PageInit(id, mode, cap)
  \/ \E id \in 1..MaxRecords : LoadAssessment(id, cap)
  \/ \E r \in BagToSet(requests), st \in Statuses : LoadResponse(r, st)
  \/ ClearAll

\* a signed-in session of script.js, started with or without an entry in
\* client storage, one request at a time; what the user types, a zero and a
\* blank, leaves the payload of a save as it is
Init == Start({"module"}, {NoCache, CachedSample}, {"valid"})

Next == Step({<<"0">>}, {<<" ">>}, {TRUE}, 1)

Spec == Init /\ [][Next]_vars

\* a signed-in session with overlapping requests
InitOverlap == Start({"module"}, {NoCache}, {"valid"})

NextOverlap == Step({<<"0">>}, {<<" ">>}, {TRUE}, MaxInFlight)

SpecOverlap == InitOverlap /\ [][NextOverlap]_vars

\* a session started without an entry in client storage, one request at a
\* time
SpecFresh == InitOverlap /\ [][Next]_vars

\* a signed-in session with every text the user may type
NextPayload == Step(RawInputs, NameInputs, {TRUE}, 1)

SpecPayload == InitOverlap /\ [][NextPayload]_vars

\* sessions under every state of the credential, which may run out, with
\* client storage accepting or refusing a write
InitFallback == Start({"module"}, {NoCache}, TokenStates)

NextFallback == Step({<<"0">>}, {<<" ">>}, BOOLEAN, 1) \/ SessionStep

SpecFallback == InitFallback /\ [][NextFallback]_vars

\* a signed-in session of either build that opens assessments by identity,
\* for editing or for viewing, over a collection that holds one of the
\* user's assessments
InitLoad ==
  StartWith({"module", "combined"}, {NoCache}, {"valid"}, { <<StoredSample>> })

NextLoad == Step({<<"0">>}, {<<" ">>}, {TRUE}, 1) \/ LoadStep(1)

SpecLoad == InitLoad /\ [][NextLoad]_vars

\* a record of the other account
OthersSample == [StoredSample EXCEPT !.userId = "u2"]

\* assessments opened by identity under every state of the credential, with
\* an entry in client storage or none, over a collection whose one record
\* is the user's or somebody else's
InitRefusedLoad ==
  StartWith({"module", "combined"}, {NoCache, CachedSample}, TokenStates,
            { <<StoredSample>>, <<OthersSample>> })

NextRefusedLoad ==
  \/ LoadStep(1)
  \/ \E r \in BagToSet(requests) : ServerHandle(r)
  \/ SessionStep

SpecRefusedLoad == InitRefusedLoad /\ [][NextRefusedLoad]_vars

\* the requests that read documents
ReadingRequests == { r \in ApiRequests : r.op \in {"get", "list", "export"} }

\* the API under requests of two signed-in users, the page left alone: the
\* user of the page sends every request, the other user adds documents and
\* reads
NextApi ==
  \/ \E r \in ApiRequests : ApiCall(TheUser, r, TRUE)
  \/ \E u \in Users \ {TheUser}, r \in AddingRequests \cup ReadingRequests :
       ApiCall(u, r, TRUE)

SpecApi == InitOverlap /\ [][NextApi]_vars

\* the API under requests of the user of the page: some add documents with
\* a credential that passes, the others carry one that does not
NextAuth ==
  \/ \E r \in AddingRequests : ApiCall(TheUser, r, TRUE)
  \/ \E cred \in Credentials \ {"valid"}, r \in EffectiveRequests :
       ApiCallWithCredential(cred, r)

SpecAuth == InitOverlap /\ [][NextAuth]_vars

\* the lines of a file with the given header and rows
Table(header, rows) ==
  <<header>> \o [i \in 1..Len(rows) |->
                   CsvLine(rows[i].category, rows[i].rating)]

\* the rows of a complete file, which between them hold every rating
Rows ==
  [i \in 1..Len(metricOrder) |->
     [category |-> metricOrder[i], rating |-> IntToText(i % 6)]]

\* a row no metric is named by, with the given rating
Stray(rating) == [category |-> "notes", rating |-> rating]

FooBar == <<"F", "o", "o", ",", "B", "a", "r">>

\* the files the user imports: a complete one, with blanks around its
\* fields and a blank line, under a header in lower case and the other
\* order; one without "feedback" and "teams"; two under the header Foo,Bar,
\* with rows and without; one with a stray row whose rating is a number and
\* one whose is not; a stray row alone
CsvTexts ==
  { <<toLowerCase(SubSeq(CsvHeader, 12, 18) \o <<",">>
                  \o SubSeq(CsvHeader, 1, 10)), <<" ">>>>
      \o [i \in 1..Len(Rows) |->
            <<" ", Rows[i].category, " ", ",", " ">> \o Rows[i].rating],
    Table(CsvHeader,
          SelectSeq(Rows,
                    LAMBDA row : row.category \notin {"feedback", "teams"})),
    Table(FooBar, Rows),
    <<FooBar>>,
    Table(CsvHeader, <<Stray(<<"3">>)>> \o Rows),
    Table(CsvHeader, Rows \o <<Stray(<<"x">>)>>),
    Table(CsvHeader, <<Stray(<<"3">>)>>) }

\* the files of the user as the imports read them
CsvFiles == { readCsv(lines) : lines \in CsvTexts }

\* the request that uploads the given file
ImportRequest(file) ==
  ApiRequest("import", 0, [employeeName |-> <<"A">>], NoQuery, file)

\* the exports of one assessment
ExportRequests ==
  { ApiRequest("export", 0, << >>, [NoQuery EXCEPT !.ids = {i}], NoFile) :
      i \in 1..MaxRecords }

\* files go between the disk of the user, the form and the API: the user
\* loads a file into the form or uploads it, a file of theirs or the one
\* saved last, saves the form as a file, exports assessments to a file and
\* clears the form
NextImport ==
  \/ PageInit(0, "edit", 1)
  \/ \E file \in CsvFiles \cup {readCsv(downloaded)} : LoadFromCSV(file, TRUE)
  \/ SaveToCSV
  \/ ClearAll
  \/ \E file \in CsvFiles \cup {readCsv(downloaded)} :
       ApiCall(TheUser, ImportRequest(file), TRUE)
  \/ \E r \in ExportRequests : ApiDownload(r)

SpecImport == InitOverlap /\ [][NextImport]_vars

\* a name longer than a filename may be
LongName == [i \in 1..(MaxNameKept + 1) |-> "a"]

\* names the user gives the subject: blank, plain, with a blank inside, with
\* a character HTML escapes, of underscores, and a long one
SubjectNames ==
  { <<" ">>, <<"A">>, <<"A", " ", "B">>, <<"<">>, <<"_", "_">>, LongName }

\* the request that creates an assessment of the given subject
CreateRequest(name) ==
  ApiRequest("create", 0, [employeeName |-> name, metrics |-> Ratings(5)],
             NoQuery, NoFile)

\* the user names the subject and saves the form as a file; assessments of
\* such subjects are created in the collection and exported to a file
NextExport ==
  \/ PageInit(0, "edit", 1)
  \/ \E v \in SubjectNames : InputName(v)
  \/ SaveToCSV
  \/ \E v \in SubjectNames : ApiCall(TheUser, CreateRequest(v), TRUE)
  \/ \E r \in ExportRequests : ApiDownload(r)

SpecExport == InitOverlap /\ [][NextExport]_vars

\* files the user loads into the form: one exported earlier, one under the
\* header Foo,Bar, one that ends after its header, and one whose only row
\* names no metric
FormFiles ==
  { readCsv(Table(CsvHeader, Rows)),
    readCsv(Table(FooBar, Rows)),
    readCsv(<<CsvHeader>>),
    readCsv(Table(CsvHeader, <<Stray(<<"3">>)>>)) }

\* what the browser and the server do by themselves: a request is carried
\* out, a fetch settles
Served == \E r \in BagToSet(requests) : ServerHandle(r)

Settled ==
  \E r \in BagToSet(requests), st \in Statuses : SaveResponse(r, st, TRUE)

\* a session in which the user edits ratings, saves and loads files into
\* the form
NextCsvSave ==
  \/ PageInit(0, "edit", 1)
  \/ \E m \in EditableMetrics : InputRating(m, <<"0">>)
  \/ ManualSave(TRUE, 1)
  \/ \E file \in FormFiles : LoadFromCSV(file, TRUE)
  \/ TimerFire("ratings", TRUE, 1)
  \/ Served
  \/ Settled

\* no timeout that is due, no request and no answer waits for ever
SpecCsvSave ==
  /\ InitOverlap /\ [][NextCsvSave]_vars
  /\ WF_vars(TimerFire("ratings", TRUE, 1))
  /\ WF_vars(Served)
  /\ WF_vars(Settled)

\* sessions under every state of the credential, started with or without an
\* entry in client storage: the user edits and saves, the credential may
\* run out, and the user signs out or an expired credential signs them out
InitLogout == Start({"module"}, {NoCache, CachedSample}, TokenStates)

NextLogout ==
  \/ PageInit(0, "edit", 1)
  \/ \E m \in EditableMetrics : InputRating(m, <<"0">>)
  \/ TimerFire("ratings", TRUE, 1)
  \/ ManualSave(TRUE, 1)
  \/ Served
  \/ Settled
  \/ TokenExpires
  \/ Logout
  \/ \E status \in Statuses : LogoutComplete(status)

SpecLogout == InitLogout /\ [][NextLogout]_vars

\* ratings of the scale the user types
ScaleInputs == { <<"0">>, <<"3">> }

\* the life of one in-progress record, from a fresh page up to the next
\* 'start new': the user edits ratings and the name and saves, timeouts run
\* and requests overlap
NextRecord ==
  \/ PageInit(0, "edit", MaxInFlight)
  \/ \E m \in EditableMetrics : InputRating(m, <<"0">>)
  \/ InputName(<<" ">>)
  \/ \E o \in TimerOwners : TimerFire(o, TRUE, MaxInFlight)
  \/ ManualSave(TRUE, MaxInFlight)
  \/ Served
  \/ Settled

SpecRecord == InitOverlap /\ [][NextRecord]_vars

\* the same life with ratings that differ, the name left alone
NextRatings ==
  \/ PageInit(0, "edit", MaxInFlight)
  \/ \E m \in EditableMetrics, v \in ScaleInputs : InputRating(m, v)
  \/ TimerFire("ratings", TRUE, MaxInFlight)
  \/ ManualSave(TRUE, MaxInFlight)
  \/ Served
  \/ Settled

SpecRatings == InitOverlap /\ [][NextRatings]_vars

(* ------------------------- averages of a record ------------------------ *)

\* the number n / d, kept as the pair
Quotient(n, d) == [num |-> n, den |-> d]

\* two quotients are the same number
SameNumber(a, b) == a.num * b.den = b.num * a.den

\* assessmentSchema.methods.calculateThemeAverages
calculateThemeAverages(assessment) ==
  LET metrics == assessment.metrics IN
  [name \in {"Strategic Vision", "Focus and Engagement",
             "Autonomy and Change", "Stakeholders and Team"} |->
    CASE name = "Strategic Vision" ->
           Quotient(metrics.sharedVision
                    + metrics.strategy
                    + metrics.businessAlignment
                    + metrics.customerFocus, 4)
      [] name = "Focus and Engagement" ->
           Quotient(metrics.crossFunctionalTeams
                    + metrics.clarityInPriorities
                    + metrics.acceptanceCriteria
                    + metrics.enablingFocus
                    + metrics.engagement, 5)
      [] name = "Autonomy and Change" ->
           Quotient(metrics.feedback
                    + metrics.enablingAutonomy
                    + metrics.changeAndAmbiguity
                    + metrics.desiredCulture
                    + metrics.workAutonomously, 5)
      [] name = "Stakeholders and Team" ->
           Quotient(metrics.stakeholders
                    + metrics.teamAttrition
                    + metrics.teams
                    + metrics.developingPeople
                    + metrics.subordinatesForSuccess, 5)]

\* values.reduce((acc, val) => acc + val, 0)
RECURSIVE reduceSum(_)
reduceSum(values) ==
  IF values = <<>> THEN 0
  ELSE reduceSum(SubSeq(values, 1, Len(values) - 1)) + values[Len(values)]

\* the mean of the four theme averages
calculateOverallAverageOfThemes(assessment) ==
  LET avg == calculateThemeAverages(assessment) IN
  Quotient(5 * avg["Strategic Vision"].num
           + 4 * (avg["Focus and Engagement"].num
                  + avg["Autonomy and Change"].num
                  + avg["Stakeholders and Team"].num), 80)

\* assessmentSchema.methods.calculateOverallAverage; Object.values of the
\* metrics of a document are the values of the paths of the schema
calculateOverallAverage(assessment) ==
  LET values == [i \in 1..Len(metricOrder) |->
                   assessment.metrics[metricOrder[i]]]
  IN Quotient(reduceSum(values), Len(values))

\* both methods are called on document i of the collection
CalculateAverages(i) ==
  /\ i \in 1..Len(store) /\ store[i] # Deleted
  /\ last' = [themeAverages |-> calculateThemeAverages(store[i]),
              overallAverage |-> calculateOverallAverage(store[i])]
             @@ [Handler("averages") EXCEPT !.key = i]
  /\ UNCHANGED << build, user, downloaded, phase, readOnly, page, inputs,
                  nameInput, employeeName, currentAssessmentId, timers,
                  requests, store, localCache, token, logoutPending,
                  messages, burst, failed, firstId >>

\* the ratings of the sample records: the first metric of a theme has one
\* of its own, the others of the theme share one
FirstRatings == {0, 3, 5}

OtherRatings == {0, 5}

\* the number of the theme of metric m
ThemeOf(m) ==
  CHOOSE k \in 1..Len(themes) :
    \E i \in 1..Len(themes[k].metrics) : themes[k].metrics[i] = m

\* complete records of ratings of the scale
SampleRecords ==
  { [m \in MetricIds |->
       IF Head(themes[ThemeOf(m)].metrics) = m THEN first[ThemeOf(m)]
       ELSE other[ThemeOf(m)]] :
      first \in [1..Len(themes) -> FirstRatings],
      other \in [1..Len(themes) -> OtherRatings] }

\* a collection that holds one of the sample records
InitAverages ==
  StartWith({"module"}, {NoCache}, {"valid"},
            { <<[StoredSample EXCEPT !.metrics = record]>> :
                record \in SampleRecords })

NextAverages == \E i \in 1..MaxRecords : CalculateAverages(i)

SpecAverages == InitAverages /\ [][NextAverages]_vars

\* the numbers typed into a rating, in tenths
TypedNumbers == (0 - MaxTypedBelow)..MaxTyped

\* texts that are no number and do not begin with one
NonNumericTexts ==
  { <<>>, <<" ">>, <<"x">>, <<"a", "1">>, <<"-">>, <<".">>, <<"-", "x">> }

\* what is typed into a rating: the numbers as String writes them, texts
\* that are no number, a number with a leading blank, one with a sign and
\* one followed by letters
ClampInputs ==
  { TenthsToText(r) : r \in TypedNumbers }
  \cup NonNumericTexts
  \cup { <<" ", "3">>, <<"+", "3">>, <<"3", "x">> }

\* a page nobody is signed in to
InitClamp == Start({"module"}, {NoCache}, {"none"})

\* the user types ratings and the debounced handler runs
NextClamp ==
  \/ PageInit(0, "edit", 1)
  \/ \E m \in EditableMetrics, v \in ClampInputs : InputRating(m, v)
  \/ TimerFire("ratings", TRUE, 1)

SpecClamp == InitClamp /\ [][NextClamp]_vars

(* -------------------------------- claims ------------------------------- *)

\* a save for an authenticated user has just issued its request
SaveIssued == last.act = "save" /\ last.issued

\* the writes of the bag that belong to the record now in memory
CurrentWrites(B) ==
  { r \in BagToSet(B) : r.op \in {"create", "update"} /\ ~r.stale }

\* the step issues the write r
IssuedNow(r) ==
  /\ r.op \in {"create", "update"} /\ r.http = 0 /\ ~r.stale
  /\ CopiesIn(r, requests') > CopiesIn(r, requests)

\* r is a create when no identity is bound, else an update keyed by it
DecidedByIdentity(r) ==
  /\ r.op = (IF currentAssessmentId = 0 THEN "create" ELSE "update")
  /\ r.key = currentAssessmentId

\* C1: whenever a save runs for an authenticated user, on debounce expiry
\* or on manual save, it issues a create if and only if no identity is bound
\* and otherwise an update keyed by the bound identity, and the payload is
\* the record's current mapping, the rating the page shows for each metric
\* with 0 for a metric without value, and the subject name or "Unknown"
\* when the name is blank
C1_SaveSendsCurrentRecord ==
  [][\A r \in BagToSet(requests') :
       IssuedNow(r) =>
         /\ DecidedByIdentity(r)
         /\ r.data.employeeName =
              (IF employeeName = <<>> THEN Unknown ELSE employeeName)
         /\ \A m \in MetricIds : 10 * r.data.metrics[m] = chartData[m]]_vars

\* C2: after a create has succeeded, every later write of the session,
\* until 'start new' or a load, is an update keyed by the identity that
\* create returned
C2_BoundIdentityIsKept ==
  (SaveIssued /\ firstId # 0) => (last.op = "update" /\ last.key = firstId)

\* C3: writes for the same record are never concurrent: at most one create
\* or update of the record in memory is outstanding at any time
C3_WritesNeverConcurrent ==
  /\ Cardinality(CurrentWrites(requests)) <= 1
  /\ \A r \in CurrentWrites(requests) : CopiesIn(r, requests) = 1

\* C4: a response that arrives after the record in memory was replaced by
\* 'start new' or a load does not change the bound identity
C4_StaleResponseIsNoOp ==
  (last.act \in {"saved", "fallback"} /\ last.stale) =>
    currentAssessmentId = last.bound

\* C5: no autosave write is attempted before the whole delay has passed
\* since the last edit of a rating or of the name, and a burst of edits,
\* each following the previous one by less than the delay, results in a
\* single write
C5_AutosaveIsDebounced ==
  (last.act = "save" /\ last.trigger \in TimerOwners) =>
    (last.quiet /\ last.nth <= 1)

\* C6: at most one quiescence timer is outstanding at any time
C6_SingleTimer == Len(timers) <= 1

\* a save has just ended without reaching the Remote Store: no credential,
\* or the request failed
FallbackEnded ==
  \/ last.act = "save" /\ last.op = "local"
  \/ last.act = "fallback"

RECURSIVE Count(_, _)
Count(seq, x) ==
  IF seq = <<>> THEN 0
  ELSE (IF Head(seq) = x THEN 1 ELSE 0) + Count(Tail(seq), x)

\* C7 as stated: on any failure to reach the Remote Store during a save the
\* save writes the full current state to the Local Cache and raises nothing
C7_FallbackWritesCache ==
  FallbackEnded => (localCache = localImage /\ ~last.raised)

\* C7: on any failure to reach the Remote Store during a save the save
\* raises nothing, and it leaves the full current state in the Local Cache
\* unless client storage refuses the write, in which case the entry is as
\* it was before
C7_FallbackWritesCacheIfStorageAccepts ==
  FallbackEnded =>
    /\ ~last.raised
    /\ last.wrote => localCache = localImage
    /\ ~last.wrote => ~last.cacheTouched

\* a request failed with a server error while client storage refused the
\* write of the fallback
C7_Witness ==
  /\ last.act = "fallback" /\ last.status = 500
  /\ ~last.wrote /\ localCache # localImage

\* C8: a save attempted with no bound identity while the Remote Store
\* cannot be reached, and client storage accepts the write, raises the
\* degraded-mode notification exactly once and leaves the full current
\* mapping in the Local Cache
C8_DegradedNoticeOnce ==
  (FallbackEnded /\ currentAssessmentId = 0 /\ last.wrote) =>
    /\ Count(messages, DegradedNotice) = 1
    /\ localCache = localImage

\* C9: when a save is attempted with an absent, expired or invalid
\* credential and client storage accepts the write, then once the save and
\* what it set in motion has finished the Local Cache holds the record's
\* current state
C9_CacheHeldAfterAuthFailure ==
  /\ (last.act = "save" /\ last.op = "local" /\ last.wrote
        /\ ~logoutPending) => localCache = localImage
  /\ (last.act = "fallback" /\ last.status \in {401, 403} /\ last.wrote
        /\ ~logoutPending) => localCache = localImage
  /\ (last.act = "logout" /\ last.afterUnauth) => localCache = localImage

\* C10 as stated: after a remote write has failed no create or update is
\* issued until the user edits again or triggers a manual save
C10_NoWriteAfterFailure ==
  (SaveIssued /\ last.trigger \in TimerOwners) => ~last.afterFailure

\* the writes outstanding
Writes(B) == { r \in BagToSet(B) : r.op \in {"create", "update"} }

NumWrites(B) == BagCardinality([r \in Writes(B) |-> CopiesIn(r, B)])

\* C10: there is no automatic retry: the handler of a failed write issues
\* no request and arms no timer; a create or update is issued only by a
\* manual save or by the expiry of a timer, and a timer is armed only by an
\* edit of the user
C10_NoAutomaticRetry ==
  /\ [](last.act = "fallback" => ~last.issued)
  /\ [][ /\ (~failed /\ failed') =>
              /\ NumWrites(requests') = NumWrites(requests) - 1
              /\ timers' = timers
         /\ NumWrites(requests') > NumWrites(requests) =>
              /\ last'.act = "save"
              /\ \/ last'.trigger = "manual" /\ timers' = timers
                 \/ /\ timers # <<>>
                    /\ last'.trigger = Head(timers).owner
                    /\ timers' = Tail(timers)
         /\ (timers' # timers /\ (timers = <<>> \/ timers' # Tail(timers))) =>
              last'.act \in {"inputRating", "inputName"} ]_vars

\* a write failed while a timer armed by an earlier edit was pending
C10_Witness == last.act = "fallback" /\ timers # <<>> /\ failed

\* nothing of the page is pending: no timeout and no request
Quiescent == timers = <<>> /\ requests = EmptyBag

\* the Remote Store holds the record the page would send
StoreHoldsRecord ==
  \E i \in 1..Len(store) :
    /\ store[i].userId = TheUser
    /\ store[i].employeeName = saveData.employeeName
    /\ store[i].metrics = saveData.metrics

\* C11: the state written to the Local Cache while the Remote Store could
\* not be reached becomes a record of the Remote Store without the user
\* acting again: once nothing of the page is pending after such a save,
\* the Remote Store holds the record
C11_OfflineStateIsSynced ==
  (failed /\ Quiescent /\ isAuthenticated(token) /\ localCache = localImage)
    => StoreHoldsRecord

\* C12: a manual save bypasses the debounce: it can run whether or not a
\* timeout is pending, leaves the pending timeouts as they are, and makes
\* the decision of a timer expiry, a create when no identity is bound and
\* otherwise an update keyed by the bound identity
C12_ManualSaveBypassesDebounce ==
  /\ []((phase = "ready" /\ page = "app" /\ requests = EmptyBag)
          => ENABLED ManualSave(TRUE, 1))
  /\ [][(last'.act = "save" /\ last'.trigger = "manual") =>
          /\ timers' = timers
          /\ \A r \in BagToSet(requests') :
               IssuedNow(r) => DecidedByIdentity(r)]_vars

\* a manual save of a bound record ran while a timeout was pending
C12_Witness ==
  /\ SaveIssued /\ last.trigger = "manual" /\ last.op = "update"
  /\ timers # <<>>

\* C13: a save whose remote write succeeded ends as a success whether or not
\* localStorage accepted the backup write: nothing is raised, the success
\* message is shown, nothing is marked failed by it, a create binds the
\* identity the server answered, and the Local Cache holds the record in
\* memory whenever localStorage accepted the write.
C13_CacheBackupIsBestEffort ==
  /\ [](last.act = "saved" =>
          /\ ~last.raised
          /\ messages \in { <<"Assessment saved to database">>,
                             <<"Assessment updated successfully">> }
          /\ last.op = "create" => currentAssessmentId # 0
          /\ last.wrote => localCache = localImage)
  /\ [][(last'.act = "saved" /\ last' # last) =>
          /\ failed' = failed
          /\ \E r \in BagToSet(requests) :
               /\ requests' = requests (-) One(r)
               /\ r.op = "create" => currentAssessmentId' = r.resp.id]_vars

C13_Witness ==
  /\ last.act = "saved" /\ last.op = "create" /\ ~last.wrote
  /\ currentAssessmentId # 0 /\ localCache # localImage

\* C14: when the page starts with an assessment identity in its URL and the
\* server answers the record it holds for the user, then once that answer
\* has been delivered the name and the ratings in memory are those of the
\* stored record and the identity of the URL is bound.
C14_LoadSeedsRecord ==
  [][\A r \in BagToSet(requests) :
       ( /\ last.act = "init" /\ last.op = "get" /\ last.key = r.key
         /\ r.op = "get" /\ r.http = 200
         /\ r.resp = DocOf(store, r.key)
         /\ CopiesIn(r, requests') < CopiesIn(r, requests)
         /\ last'.status = 200 )
       => /\ employeeName' = r.resp.employeeName
          /\ \A m \in MetricIds :
               validateInput(inputs'[m]) = 10 * r.resp.metrics[m]
          /\ currentAssessmentId' = r.key]_vars

\* C15: once the page was opened in mode 'view', nothing the user does
\* changes a rating or the name in memory, apart from the arrival of the
\* record being viewed, and no create or update is issued.
C15_ReadOnlySuppressesEditsAndWrites ==
  [][(readOnly /\ last'.act # "loaded") =>
       /\ chartData' = chartData
       /\ employeeName' = employeeName
       /\ \A r \in BagToSet(requests') : ~IssuedNow(r)]_vars

\* C16: right after 'start new' no identity is bound and every rating is 0,
\* whatever was bound and entered before.
C16_StartNewIsUnsaved ==
  last.act = "new" =>
    /\ currentAssessmentId = 0
    /\ \A m \in MetricIds : validateInput(inputs[m]) = 0
    /\ employeeName = <<>>

C16_Witness ==
  /\ last.act = "new" /\ last.bound # 0 /\ last.cacheTouched
  /\ currentAssessmentId = 0

\* the last step was a request to the API
ApiAnswered == last.act = "api"

\* document i of the collection exists and belongs to someone else than u
OthersRecord(st, u, i) ==
  i \in 1..Len(st) /\ st[i].userId \notin {u, Deleted.userId}

\* the request body passes the validation chain of create and update
PassesValidation(op, body) ==
  op \in {"create", "update"} => validateAssessment(body).ok

C18_OwnerIsImmutable ==
  /\ [](\A i \in 1..Len(store) : store[i].userId \in Users \cup {Deleted.userId})
  /\ [][\A i \in 1..Len(store) :
          store[i] # Deleted =>
            store'[i] = Deleted \/ store'[i].userId = store[i].userId]_vars
  /\ [][Len(store') > Len(store) =>
          /\ last'.op \in {"create", "import"}
          /\ Len(store') = Len(store) + 1
          /\ store'[Len(store')].userId = last'.caller]_vars

C18_Witness ==
  /\ ApiAnswered /\ last.op \in {"create", "import"} /\ last.status = 201
  /\ Has(last.data, "userId") /\ last.data.userId # last.caller
  /\ store[Len(store)].userId = last.caller

\* the body supplies some of the fields of a record, not all, each valid
SuppliesSome(body) ==
  /\ DOMAIN body \in { {"employeeName"}, {"metrics"} }
  /\ Has(body, "employeeName") =>
       Trim(body.employeeName) # <<>> /\ Len(Trim(body.employeeName)) <= 100
  /\ Has(body, "metrics") =>
       \A m \in MetricIds :
         /\ Has(body.metrics, m)
         /\ body.metrics[m] >= ratingScaleMin
         /\ body.metrics[m] <= ratingScaleMax

\* C19: an update by the owner whose body supplies only the name or only
\* the metrics succeeds and changes the supplied field alone.
C19_UpdateIsPartial ==
  [][( /\ last'.act = "api" /\ last'.op = "update"
       /\ Owned(store, last'.caller, last'.key)
       /\ SuppliesSome(last'.data) )
      => /\ last'.status = 200
         /\ store'[last'.key].userId = store[last'.key].userId
         /\ store'[last'.key].employeeName =
              (IF Has(last'.data, "employeeName")
               THEN validatorEscape(Trim(last'.data.employeeName))
               ELSE store[last'.key].employeeName)
         /\ store'[last'.key].metrics =
              (IF Has(last'.data, "metrics") THEN last'.data.metrics
               ELSE store[last'.key].metrics)]_vars

\* a rating of the body is outside the scale, or one of the metrics is
\* missing from it
InvalidRatings(body) ==
  \/ ~Has(body, "metrics")
  \/ \E m \in MetricIds :
       \/ ~Has(body.metrics, m)
       \/ body.metrics[m] < ratingScaleMin
       \/ body.metrics[m] > ratingScaleMax

Held == { i \in 1..Len(store) : store[i] # Deleted }

\* C21: whatever was created, updated, imported and deleted, each document
\* of the collection maps every one of the 19 metrics, and nothing else, to
\* an integer from 0 to 5.
C21_StoredMappingIsTotal ==
  \A i \in Held :
    /\ DOMAIN store[i].metrics = MetricIds
    /\ \A m \in MetricIds :
         store[i].metrics[m] \in ratingScaleMin..ratingScaleMax

C21_Witness ==
  /\ ApiAnswered /\ last.op = "import" /\ last.status = 201
  /\ Held # {} /\ Cardinality(Held) < Len(store)
  /\ \E i \in Held : store[i].metrics[Head(metricOrder)] = ratingScaleMax

\* C22: a document that was deleted stays deleted, no answer to any user
\* carries it afterwards, and a delete of a document that is not there, or
\* not there any more, is answered 404 and leaves the collection as it was.
C22_DeleteIsPermanent ==
  /\ [](ApiAnswered => last.returned \subseteq Held)
  /\ [][\A i \in 1..Len(store) :
          /\ store[i] = Deleted => store'[i] = Deleted
          /\ ( /\ last'.act = "api" /\ last'.op = "delete"
               /\ last'.key = i /\ last'.status = 200 )
             => store[i] # Deleted /\ store'[i] = Deleted]_vars
  /\ [][( /\ last'.act = "api" /\ last'.op = "delete"
           /\ last'.key \notin Held )
          => last'.status = 404 /\ store' = store]_vars

C22_Witness ==
  /\ ApiAnswered /\ last.op = "delete" /\ last.status = 404
  /\ last.key \in 1..Len(store) /\ store[last.key] = Deleted

\* the status authenticateToken answers for a credential that does not pass
RefusalOf(cred) ==
  CASE cred \in {"none", "orphan"} -> 401
    [] cred \in {"expired", "rejected"} -> 403
    [] OTHER -> 500

\* C23: a request whose token is absent or belongs to no user is answered
\* 401, one whose token is invalid or expired 403; such a request reads no
\* document and leaves the collection as it was, so that only a request
\* with a verified token of an existing user gets the answer of a handler.
C23_OperationsNeedVerifiedToken ==
  /\ [][(last'.act = "api" /\ last'.cred # "valid") =>
          /\ store' = store
          /\ last'.returned = {}
          /\ last'.status = RefusalOf(last'.cred)]_vars
  /\ [](( /\ ApiAnswered
          /\ last.status \in {200, 201, 400, 404} ) => last.cred = "valid")

C23_Witness ==
  /\ ApiAnswered /\ last.cred = "expired" /\ last.op = "delete"
  /\ last.status = 403 /\ Owned(store, TheUser, last.key)

\* the step ran loadAssessment for a user whom the page does not take for
\* signed in
LoadAttemptRefused ==
  /\ last' # last
  /\ last'.act \in {"init", "load"} /\ last'.key # 0
  /\ ~isAuthenticated(token)

\* the step ran the catch block of loadAssessment on an answer that refuses
\* the credential or finds no such record of the user
LoadAnswerRefused ==
  /\ BagCardinality(requests') < BagCardinality(requests)
  /\ last'.act = "loadFailed"
  /\ last'.status \in {401, 403, 404}

\* C24: a load by identity that is attempted without a valid credential, or
\* for a record that does not exist or belongs to another user, shows an
\* error, issues no request, reads and writes no cache entry, and leaves the
\* ratings, the name and the unbound identity as they were.
C24_LoadErrorsAreSurfaced ==
  [][(LoadAttemptRefused \/ LoadAnswerRefused) =>
       /\ messages' # <<>>
       /\ messages'[1] \in {loginNotice(build), loadFailedNotice(build)}
       /\ \A r \in BagToSet(requests') :
            CopiesIn(r, requests') <= CopiesIn(r, requests)
       /\ localCache' = localCache
       /\ inputs' = inputs
       /\ nameInput' = nameInput
       /\ employeeName' = employeeName
       /\ currentAssessmentId' = currentAssessmentId]_vars

C24_Witness ==
  /\ last.act = "loadFailed" /\ last.status = 404
  /\ OthersRecord(store, TheUser, last.key)
  /\ localCache.present /\ inputs # localCache.formData
  /\ currentAssessmentId = 0
  /\ requests = EmptyBag

\* the texts of the integers of the rating scale
RatingTexts == { IntToText(v) : v \in ratingScaleMin..ratingScaleMax }

\* the metrics the recognized, valid rows of a table name
Covered(rows) ==
  { rows[i].category : i \in { k \in 1..Len(rows) :
      rows[k].category \in MetricIds /\ rows[k].rating \in RatingTexts } }

\* the header of the file names both columns, in some case
HeaderNamesColumns(file) ==
  \E h \in {toLowerCase(file.header)} :
    /\ \E c \in 1..(Len(h) - 9) :
         SubSeq(h, c, c + 9)
           = <<"c", "a", "t", "e", "g", "o", "r", "i", "e", "s">>
    /\ \E r \in 1..(Len(h) - 6) :
         SubSeq(h, r, r + 6) = <<"r", "a", "t", "i", "n", "g", "s">>

\* the step answered the upload of a table: a file with lines after a
\* header that names both columns
TableUploaded ==
  /\ last' # last
  /\ last'.act = "api" /\ last'.op = "import"
  /\ last'.file.present /\ last'.file.rows # <<>>
  /\ HeaderNamesColumns(last'.file)

\* C25: the upload of a table whose recognized, valid rows leave a metric
\* out is answered 400 with a list that holds exactly the metrics left
\* out, each once, and creates no record.
C25_ImportValidatesCompleteness ==
  [][TableUploaded =>
       \A left \in {MetricIds \ Covered(last'.file.rows)} :
         left # {} =>
           /\ last'.status = 400
           /\ Has(last'.reported, "missing")
           /\ { last'.reported.missing[i] :
                  i \in 1..Len(last'.reported.missing) } = left
           /\ Len(last'.reported.missing) = Cardinality(left)
           /\ store' = store]_vars

C25_Witness ==
  /\ last.act = "api" /\ last.op = "import" /\ last.status = 400
  /\ Has(last.reported, "missing")
  /\ last.reported.missing = <<"feedback", "teams">>
  /\ Covered(last.file.rows) = MetricIds \ {"feedback", "teams"}
  /\ store # <<>>

\* the step ran an import, of the page or of the API, on a file whose
\* header does not name both columns
BadHeaderImported ==
  /\ last' # last
  /\ \/ last'.act = "loadCSV"
     \/ last'.act = "api" /\ last'.op = "import"
  /\ last'.file.present
  /\ ~HeaderNamesColumns(last'.file)

Recognized(rows) == SelectSeq(rows, LAMBDA row : row.category \in MetricIds)

Unrecognized(rows) ==
  SelectSeq(rows, LAMBDA row : row.category \notin MetricIds)

\* the step ran an import, of the page or of the API, on a table of 19
\* recognized rows, one for each metric and each with a rating of the
\* scale, and one unrecognized row
StrayRowImported ==
  /\ last' # last
  /\ \/ last'.act = "loadCSV"
     \/ last'.act = "api" /\ last'.op = "import"
  /\ last'.file.present
  /\ HeaderNamesColumns(last'.file)
  /\ Len(Recognized(last'.file.rows)) = Cardinality(MetricIds)
  /\ Covered(last'.file.rows) = MetricIds
  /\ Len(Unrecognized(last'.file.rows)) = 1

\* C27: the import of a table of 19 recognized rows and one unrecognized
\* row succeeds on the page and in the API: it reports one warning and no
\* error, and every metric has the rating of its row afterwards.
C27_StrayRowIsOneWarning ==
  [][StrayRowImported =>
       \A rows \in {Recognized(last'.file.rows)} :
         IF last'.act = "api"
         THEN /\ last'.status = 201
              /\ Has(last'.reported, "warnings")
              /\ Len(last'.reported.warnings) = 1
              /\ ~Has(last'.reported, "errors")
              /\ Len(store') = Len(store) + 1
              /\ \A i \in 1..Len(rows) :
                   IntToText(store'[Len(store')].metrics[rows[i].category])
                     = rows[i].rating
         ELSE /\ last'.error = "none"
              /\ last'.warned = 1
              /\ \A i \in 1..Len(rows) :
                   inputs'[rows[i].category] = rows[i].rating]_vars

\* the same of the import of the page alone
StrayRowOnThePageIsOneWarning ==
  [][(StrayRowImported /\ last'.act = "loadCSV") =>
       \A rows \in {Recognized(last'.file.rows)} :
         /\ last'.error = "none"
         /\ last'.warned = 1
         /\ \A i \in 1..Len(rows) :
              inputs'[rows[i].category] = rows[i].rating]_vars

\* the two-column table of a complete record of integer ratings: the
\* header and a line "identifier,rating" for each metric
TableOf(record) ==
  <<CsvHeader>>
  \o [i \in 1..Len(metricOrder) |->
        <<metricOrder[i], ",">> \o IntToText(record[metricOrder[i]])]

\* the rating the line of metric number i of a table gives, if it is one of
\* the scale
RatingAt(lines, i) ==
  CHOOSE v \in ratingScaleMin..ratingScaleMax :
    lines[i + 1] = <<metricOrder[i], ",">> \o IntToText(v)

\* the record a table is the table of
RecordOf(lines) ==
  [m \in MetricIds |->
     RatingAt(lines, CHOOSE i \in 1..Len(metricOrder) : metricOrder[i] = m)]

\* the lines are the table of a complete, valid record
IsTable(lines) ==
  /\ Len(lines) = Len(metricOrder) + 1
  /\ lines[1] = CsvHeader
  /\ \A i \in 1..Len(metricOrder) :
       \E v \in ratingScaleMin..ratingScaleMax :
         lines[i + 1] = <<metricOrder[i], ",">> \o IntToText(v)

\* the form holds a complete, valid record
FormIsValid == \A m \in MetricIds : inputs[m] \in RatingTexts

\* C28: what the page saves of a complete, valid form and what the API
\* exports of one stored record is the two-column table of that record,
\* and the import of such a table, into the form or as a new record of the
\* API, yields the ratings of the record the table was written from.
C28_CsvRoundTrip ==
  /\ [][(last'.act = "saveCSV" /\ FormIsValid) =>
          /\ IsTable(downloaded')
          /\ \A record \in {RecordOf(downloaded')} :
               \A m \in MetricIds : IntToText(record[m]) = inputs[m]]_vars
  /\ [][( /\ last'.act = "api" /\ last'.op = "export"
          /\ last'.status = 200 /\ Cardinality(last'.returned) = 1 ) =>
          /\ IsTable(downloaded')
          /\ \A i \in last'.returned :
               RecordOf(downloaded') = store[i].metrics]_vars
  /\ [][( /\ last' # last /\ last'.act = "loadCSV"
          /\ Len(last'.file.rows) = Len(metricOrder)
          /\ IsTable(downloaded)
          /\ last'.file = readCsv(downloaded) ) =>
          /\ last'.error = "none"
          /\ \A record \in {RecordOf(downloaded)} :
               \A m \in MetricIds :
                 validateInput(inputs'[m]) = 10 * record[m]]_vars
  /\ [][( /\ last' # last /\ last'.act = "api" /\ last'.op = "import"
          /\ Len(last'.file.rows) = Len(metricOrder)
          /\ IsTable(downloaded)
          /\ last'.file = readCsv(downloaded) ) =>
          /\ last'.status = 201
          /\ Len(store') = Len(store) + 1
          /\ store'[Len(store')].metrics = RecordOf(downloaded)]_vars

C28_Witness ==
  /\ last.act = "loadCSV" /\ last.error = "none"
  /\ IsTable(downloaded)
  /\ last.file = readCsv(downloaded)
  /\ { RecordOf(downloaded)[m] : m \in MetricIds }
       = ratingScaleMin..ratingScaleMax
  /\ chartData = [m \in MetricIds |-> 10 * RecordOf(downloaded)[m]]
  /\ \E i \in 1..Len(store) : store[i].metrics = RecordOf(downloaded)

\* the number r of the scale in tenths, or the end of the scale it lies
\* beyond
Clamped(r) ==
  IF r < 10 * ratingScaleMin THEN 10 * ratingScaleMin
  ELSE IF r > 10 * ratingScaleMax THEN 10 * ratingScaleMax
  ELSE r

\* C29: the rating the chart shows for an input is the number typed when
\* that lies in [0,5], fractions kept, 0 when it lies below, 5 when it lies
\* above and 0 when the text is no number; it always lies in [0,5], and
\* clamping it again changes nothing.
C29_ClampRating ==
  \A m \in EditableMetrics :
    \A c \in {validateInput(inputs[m])} :
      /\ \A r \in TypedNumbers :
           inputs[m] = TenthsToText(r) => c = Clamped(r)
      /\ inputs[m] \in NonNumericTexts => c = 0
      /\ c \in (10 * ratingScaleMin)..(10 * ratingScaleMax)
      /\ validateInput(TenthsToText(c)) = c

C29_Witness ==
  /\ last.act = "inputRating"
  /\ \E m \in EditableMetrics :
       /\ inputs[m] = <<"2", ".", "5">>
       /\ chartData[m] = 25

\* the sum of the ratings a record gives the metrics listed
RECURSIVE SumOf(_, _)
SumOf(record, ids) ==
  IF ids = <<>> THEN 0 ELSE record[Head(ids)] + SumOf(record, Tail(ids))

\* the metric counts of the themes
ThemeSizes == <<4, 5, 5, 5>>

\* C30: for a complete record with ratings in [0,5], the average of each
\* theme is the sum of the ratings of its metrics divided by their number,
\* 4, 5, 5 and 5, and lies in [0,5], and the overall average is the sum of
\* the 19 ratings divided by 19.
C30_AveragesAreMeans ==
  last.act = "averages" =>
    \A record \in {store[last.key].metrics} :
      /\ \A k \in 1..Len(themes) :
           \A avg \in {last.themeAverages[themes[k].name]} :
             /\ Len(themes[k].metrics) = ThemeSizes[k]
             /\ SameNumber(avg, Quotient(SumOf(record, themes[k].metrics),
                                         ThemeSizes[k]))
             /\ avg.den > 0
             /\ ratingScaleMin * avg.den <= avg.num
             /\ avg.num <= ratingScaleMax * avg.den
      /\ last.overallAverage.den > 0
      /\ SameNumber(last.overallAverage,
                    Quotient(SumOf(record, metricOrder), 19))

\* the averages of a record for which the mean of the theme averages is
\* another number than the mean of the ratings
C30_Witness ==
  /\ last.act = "averages"
  /\ \A m \in MetricIds :
       store[last.key].metrics[m] \in ratingScaleMin..ratingScaleMax
  /\ ~SameNumber(last.overallAverage,
                 calculateOverallAverageOfThemes(store[last.key]))
  /\ \E a, b \in DOMAIN last.themeAverages :
       ~SameNumber(last.themeAverages[a], last.themeAverages[b])


\* the characters of the text are letters, digits, underscores and hyphens
OnlyFilenameChars(text) == \A i \in 1..Len(text) : FilenameChar(text[i])

NoDoubleUnderscore(text) ==
  \A i \in 1..(Len(text) - 1) : ~(text[i] = "_" /\ text[i + 1] = "_")

\* the filename is built by the convention from the given subject name
FollowsConvention(filename, subject) ==
  /\ Len(filename) >= 3
  /\ SubSeq(filename, Len(filename) - 2, Len(filename))
       = <<"_assessment_", "date", ".csv">>
  /\ \A part \in {SubSeq(filename, 1, Len(filename) - 3)} :
       IF Trim(subject) = <<>> THEN part = <<"u", "s", "e", "r">>
       ELSE /\ OnlyFilenameChars(part)
            /\ NoDoubleUnderscore(part)
            /\ Len(part) <= 50

\* the server has just answered an export of one assessment with a file
SingleExported ==
  /\ last.act = "api" /\ last.op = "export" /\ last.status = 200
  /\ Cardinality(last.returned) = 1

\* C31: the filename of every single-record export, of the form saved on
\* the page and of one assessment exported by the server, is the name part,
\* "_assessment_", the date and ".csv"; the name part is "user" when the
\* subject name is blank, and otherwise has only letters, digits,
\* underscores and hyphens, no two consecutive underscores and at most 50
\* characters
C31_ExportFilenameConvention ==
  /\ last.act = "saveCSV" => FollowsConvention(last.filename, employeeName)
  /\ SingleExported =>
       \A i \in last.returned :
         FollowsConvention(last.filename, store[i].employeeName)

\* the same of the form saved on the page alone
SavedFormFollowsConvention ==
  last.act = "saveCSV" => FollowsConvention(last.filename, employeeName)


\* a file has just been loaded into the form of a signed-in user
CsvLoaded ==
  last.act = "loadCSV" /\ last.error = "none" /\ isAuthenticated(token)

\* a save has just issued a write that carries the ratings of the form
FormSent ==
  /\ SaveIssued
  /\ \E r \in BagToSet(requests) :
       r.op = last.op /\ r.http = 0 /\ r.data.metrics = collectFormData

\* the user has just edited or emptied the form
UserEdited == last.act \in {"inputRating", "inputName", "new", "clear"}

\* C32: for a signed-in user, a successful load of a CSV file into the form
\* is eventually followed by a create or update that carries the imported
\* ratings, unless the user edits first
C32_CsvLoadIsSaved == CsvLoaded ~> (FormSent \/ UserEdited)


\* the step loaded a file into the form
FormFileLoaded == last'.act = "loadCSV" /\ last' # last

\* the file cannot be imported: it ends after its header, its header does
\* not name both columns, or none of its rows names a metric
NotImportable(file) ==
  \/ file.rows = <<>>
  \/ ~HeaderNamesColumns(file)
  \/ Recognized(file.rows) = <<>>

\* C33: an import on the page of a table none of whose rows names a metric
\* fails with the error of an empty or invalid file, and an import on the
\* page that fails, for its header, for having fewer than two lines or for
\* having no recognized row, leaves every rating, the bound identity and
\* the Local Cache as they were
C33_FailedImportChangesNothing ==
  [][FormFileLoaded =>
       /\ ( /\ last'.file.rows # <<>>
            /\ HeaderNamesColumns(last'.file)
            /\ Recognized(last'.file.rows) = <<>> )
            => last'.error \in {"CSV file is empty or invalid",
                                "No valid data found in CSV file"}
       /\ NotImportable(last'.file) <=> last'.error # "none"
       /\ NotImportable(last'.file) =>
            /\ inputs' = inputs
            /\ currentAssessmentId' = currentAssessmentId
            /\ localCache' = localCache
            /\ messages' = <<"Failed to load CSV file">>]_vars

\* a file whose only row names no metric was refused on a page with an
\* identity bound, a rating entered and an entry in the Local Cache
C33_Witness ==
  /\ last.act = "loadCSV"
  /\ last.error = "No valid data found in CSV file"
  /\ last.warned = 1 /\ last.loaded = 0
  /\ currentAssessmentId # 0
  /\ localCache.present
  /\ \E m \in MetricIds : validateInput(inputs[m]) # 0


\* C34: logout clears the session whatever the server answered to the
\* logout call: once it has finished, the token the client holds is null and
\* client storage has no credential, no user and no cached record
C34_LogoutClearsSession ==
  last.act = "logout" =>
    /\ token = "none"
    /\ user = "none"
    /\ ~localCache.present
    /\ ~logoutPending

\* the logout call failed, for a credential the server refused or for the
\* network, on a page that had a record in the Local Cache
C34_Witness ==
  /\ last.act = "logout"
  /\ ~responseOk(last.status)
  /\ last.cacheTouched
  /\ token = "none" /\ user = "none"


\* the records of the user in the Remote Store
RecordsOfUser == { i \in 1..Len(store) : Owned(store, TheUser, i) }

\* C35: from a fresh page up to the next 'start new', without a load, the
\* session creates at most one record in the Remote Store, whatever the
\* order of timer expiries, manual saves and answers, lost answers included
C35_AtMostOneRecordIsCreated == Cardinality(RecordsOfUser) <= 1


\* every rating of the form is an integer of the scale
RatingsOfScale == \A m \in MetricIds : inputs[m] \in RatingTexts \cup {<<>>}

\* the record of the Remote Store bound to the session is the record in
\* memory, as a save would send it
BoundRecordIsCurrent ==
  /\ Owned(store, TheUser, currentAssessmentId)
  /\ store[currentAssessmentId].employeeName = saveData.employeeName
  /\ store[currentAssessmentId].metrics = saveData.metrics

\* C36: for a signed-in user whose ratings are integers of the scale and
\* whose writes reached the Remote Store, once every timeout has run and
\* every write has been answered, in whatever order the store carried them
\* out, the stored record bound to the session has the name and the ratings
\* of the record in memory
C36_LastPayloadWins ==
  ( /\ Quiescent /\ isAuthenticated(token) /\ ~failed
    /\ currentAssessmentId # 0
    /\ RatingsOfScale )
    => BoundRecordIsCurrent


\* C37: 'start new' causes no remote write: the handler that runs next
\* after it issues a create or an update only if it is a manual save, also
\* when a timeout was pending at the moment of 'start new'
C37_StartNewCausesNoWrite ==
  [][last.act = "new" =>
       \A r \in BagToSet(requests') :
         IssuedNow(r) => last'.trigger = "manual"]_vars


\* C38: every payload a save sends in a create or an update carries all 19
\* metrics, each an integer from 0 to 5, whatever the inputs of the form
\* hold, and passes the validation of the server
C38_PayloadIsValid ==
  [][\A r \in BagToSet(requests') :
       IssuedNow(r) =>
         /\ DOMAIN r.data.metrics = MetricIds
         /\ \A m \in MetricIds :
              r.data.metrics[m] \in ratingScaleMin..ratingScaleMax
         /\ validateAssessment(r.data).ok]_vars


\* the step ran 'clear all'
Cleared == last'.act = "clear" /\ last' # last

\* C39: 'clear all' sets every rating to 0, empties the subject name and
\* removes the entry of the Local Cache; it leaves the bound identity as it
\* is and issues no request, and no handler but 'start new' takes the bound
\* identity away
C39_ClearAllKeepsIdentity ==
  [][ /\ Cleared =>
          /\ \A m \in MetricIds : inputs'[m] = IntToText(0)
          /\ nameInput' = <<>> /\ employeeName' = <<>>
          /\ ~localCache'.present
          /\ currentAssessmentId' = currentAssessmentId
          /\ requests' = requests
          /\ store' = store
      /\ (currentAssessmentId # 0 /\ currentAssessmentId' = 0) =>
            last'.act = "new" ]_vars

\* 'clear all' ran on a page with an identity bound and an entry in the
\* Local Cache, which it removed
C39_Witness ==
  /\ last.act = "clear" /\ last.cacheTouched
  /\ currentAssessmentId # 0
  /\ ~localCache.present
  /\ \A m \in MetricIds : inputs[m] = IntToText(0)

====
